---- MODULE Spec2Model ----
(***************************************************************************)
(* Time Cop: a Telegram bot that records work activities.  The model       *)
(* covers the conversation flows (app/bot/conversations.py), their         *)
(* registration on the bot application (app/main.py), the extraction       *)
(* client (app/services/gemini_service.py), the persistence gateway        *)
(* (app/services/db_service.py) and the date helpers (app/utils.py).       *)
(*                                                                         *)
(* Texts are sequences of one-character strings.  Dates are triples        *)
(* <<year, month, day>>.  Hours are counted in hundredths of an hour.      *)
(***************************************************************************)
EXTENDS Integers, Sequences, FiniteSets, TLC

\* ------------------------------------------------------------------------
\* Bounds of the model
\* ------------------------------------------------------------------------

\* Rows the store creates for the flows over one behaviour.
MaxRecords == 1

\* Rows the store creates over one behaviour of direct gateway calls.
MaxRecordsDb == 2

\* Activities in one batch handed to the gateway directly.
MaxBatch == 2

\* Rows the today flow may create in one behaviour of SpecHoy.
MaxRecordsHoy == 3

\* Webhook requests that may be in progress at once, and sessions of the
\* today flow in one behaviour of SpecWebhook.
MaxRequests == 2

MaxSesiones == 1

\* The writes to the session mirror in one run.
MaxEscrituras == 3

\* ------------------------------------------------------------------------
\* Conversation states (app/bot/states.py)
\* ------------------------------------------------------------------------

ESPERANDO_ACTIVIDADES == 1

ESPERANDO_FECHA == 2

ESPERANDO_ACTIVIDADES_OTRO_DIA == 3

ESPERANDO_FECHA_ELIMINAR == 4

ESPERANDO_SELECCION_ELIMINAR == 5

ESPERANDO_FECHA_CONSULTA == 6

ESPERANDO_MES_REPORTE == 7

CONVERSATION_TIMEOUT == 600

\* ConversationHandler.END, the value a callback returns to end its flow.
END == 0 - 1

\* The value of a conversation key that is not in a handler's table.
NoConversation == 0

\* ------------------------------------------------------------------------
\* Texts
\* ------------------------------------------------------------------------

Digits == <<"0", "1", "2", "3", "4", "5", "6", "7", "8", "9">>

IsDigit(c) == \E i \in 1..10 : Digits[i] = c

DigitVal(c) == (CHOOSE i \in 1..10 : Digits[i] = c) - 1

\* str.isspace() on the characters the inputs use.
IsSpace(c) == c \in {" ", "\t", "\n"}

AllDigits(s) == Len(s) > 0 /\ \A i \in 1..Len(s) : IsDigit(s[i])

RECURSIVE NumVal(_)
NumVal(s) == IF Len(s) = 0 THEN 0
             ELSE 10 * NumVal(SubSeq(s, 1, Len(s) - 1)) + DigitVal(s[Len(s)])

\* str.strip(): drop leading and trailing whitespace.
RECURSIVE LStrip(_)
LStrip(s) == IF Len(s) > 0 /\ IsSpace(s[1]) THEN LStrip(Tail(s)) ELSE s

RECURSIVE RStrip(_)
RStrip(s) == IF Len(s) > 0 /\ IsSpace(s[Len(s)])
             THEN RStrip(SubSeq(s, 1, Len(s) - 1)) ELSE s

Strip(s) == RStrip(LStrip(s))

\* str.split(sep): the parts of s between the occurrences of sep.
RECURSIVE Split(_, _)
Split(s, sep) ==
    IF \E i \in 1..Len(s) : s[i] = sep
    THEN LET i == CHOOSE k \in 1..Len(s) :
                      s[k] = sep /\ \A j \in 1..(k - 1) : s[j] # sep
         IN  <<SubSeq(s, 1, i - 1)>> \o Split(SubSeq(s, i + 1, Len(s)), sep)
    ELSE <<s>>

\* int(text): optional sign, then decimal digits, whitespace around allowed.
\* The result is <<TRUE, value>> or <<FALSE, 0>> for ValueError.
ParseInt(s) ==
    LET t == Strip(s)
        signed == Len(t) > 0 /\ t[1] \in {"+", "-"}
        body == IF signed THEN Tail(t) ELSE t
    IN  IF AllDigits(body)
        THEN <<TRUE, IF signed /\ t[1] = "-" THEN 0 - NumVal(body) ELSE NumVal(body)>>
        ELSE <<FALSE, 0>>

\* ------------------------------------------------------------------------
\* Dates (app/utils.py)
\* ------------------------------------------------------------------------

NoDate == <<0, 0, 0>>

IsLeap(y) == (y % 4 = 0 /\ y % 100 # 0) \/ y % 400 = 0

DaysInMonth(y, m) ==
    IF m = 2 THEN (IF IsLeap(y) THEN 29 ELSE 28)
    ELSE IF m \in {4, 6, 9, 11} THEN 30 ELSE 31

\* The directives of datetime.strptime used by parsear_fecha.
\* %Y is four digits; %m is 1[0-2]|0[1-9]|[1-9]; %d is
\* 3[01]|[12]\d|0[1-9]|[1-9]| [1-9].
FieldY(s) == Len(s) = 4 /\ AllDigits(s)

FieldM(s) == Len(s) \in {1, 2} /\ AllDigits(s) /\ NumVal(s) \in 1..12

FieldD(s) ==
    \/ Len(s) \in {1, 2} /\ AllDigits(s) /\ NumVal(s) \in 1..31
    \/ Len(s) = 2 /\ s[1] = " " /\ IsDigit(s[2]) /\ DigitVal(s[2]) \in 1..9

FieldDVal(s) == IF s[1] = " " THEN DigitVal(s[2]) ELSE NumVal(s)

\* datetime.strptime(texto, fmt).date() for a format of three fields joined
\* by sep; yfirst says whether the year is the first field.  NoDate stands
\* for ValueError.
Strptime(texto, sep, yfirst) ==
    LET p == Split(texto, sep)
    IN  IF Len(p) # 3 THEN NoDate
        ELSE LET ys == IF yfirst THEN p[1] ELSE p[3]
                 ds == IF yfirst THEN p[3] ELSE p[1]
             IN  IF FieldY(ys) /\ FieldM(p[2]) /\ FieldD(ds)
                    /\ NumVal(ys) >= 1
                    /\ FieldDVal(ds) <= DaysInMonth(NumVal(ys), NumVal(p[2]))
                 THEN <<NumVal(ys), NumVal(p[2]), FieldDVal(ds)>>
                 ELSE NoDate

\* parsear_fecha: the first of the three formats that parses, else None.
parsear_fecha_sin_strip(texto) ==
    LET t == texto
        iso == Strptime(t, "-", TRUE)
        slash == Strptime(t, "/", FALSE)
        dash == Strptime(t, "-", FALSE)
    IN  IF iso # NoDate THEN iso
        ELSE IF slash # NoDate THEN slash
        ELSE dash

parsear_fecha(texto) ==
    LET t == Strip(texto)
        iso == Strptime(t, "-", TRUE)
        slash == Strptime(t, "/", FALSE)
        dash == Strptime(t, "-", FALSE)
    IN  IF iso # NoDate THEN iso
        ELSE IF slash # NoDate THEN slash
        ELSE dash


\* Comparison of dates, as Python compares datetime.date values.
DateLess(a, b) ==
    \/ a[1] < b[1]
    \/ a[1] = b[1] /\ a[2] < b[2]
    \/ a[1] = b[1] /\ a[2] = b[2] /\ a[3] < b[3]

\* fecha_colombia_hoy(): the current date in the configured timezone.
fecha_colombia_hoy == <<2026, 2, 17>>

\* date.min and date.max, the ends of the range of datetime.date.
DateMin == <<1, 1, 1>>

DateMax == <<9999, 12, 31>>

\* The value that stands for the OverflowError ("date value out of range")
\* that date arithmetic raises when the result leaves date.min..date.max.
OverflowError == <<0, 0, 1>>

\* date - timedelta(days=1) and date + timedelta(days=1).
PrevDay(f) ==
    IF f = OverflowError \/ f = DateMin THEN OverflowError
    ELSE IF f[3] > 1 THEN <<f[1], f[2], f[3] - 1>>
    ELSE IF f[2] > 1 THEN <<f[1], f[2] - 1, DaysInMonth(f[1], f[2] - 1)>>
    ELSE <<f[1] - 1, 12, 31>>

NextDay(f) ==
    IF f = OverflowError \/ f = DateMax THEN OverflowError
    ELSE IF f[3] < DaysInMonth(f[1], f[2]) THEN <<f[1], f[2], f[3] + 1>>
    ELSE IF f[2] < 12 THEN <<f[1], f[2] + 1, 1>>
    ELSE <<f[1] + 1, 1, 1>>

\* date - timedelta(days=n) and date + timedelta(days=n), n >= 0.
RECURSIVE RestarDias(_, _)
RestarDias(f, n) == IF n = 0 THEN f ELSE RestarDias(PrevDay(f), n - 1)

RECURSIVE SumarDias(_, _)
SumarDias(f, n) == IF n = 0 THEN f ELSE SumarDias(NextDay(f), n - 1)

\* date.toordinal(): the days before the year, plus the days before the
\* month, plus the day; 1 January of year 1 is day 1.
DaysBeforeYear(y) ==
    (y - 1) * 365 + ((y - 1) \div 4) - ((y - 1) \div 100) + ((y - 1) \div 400)

RECURSIVE DaysBeforeMonth(_, _)
DaysBeforeMonth(y, m) ==
    IF m = 1 THEN 0 ELSE DaysInMonth(y, m - 1) + DaysBeforeMonth(y, m - 1)

ToOrdinal(f) == DaysBeforeYear(f[1]) + DaysBeforeMonth(f[1], f[2]) + f[3]

\* date.weekday(): Monday is 0, Sunday is 6.
Weekday(f) == (ToOrdinal(f) + 6) % 7

\* inicio_semana, fin_semana: the Monday and the Sunday of the week of f.
inicio_semana_sin_restar(f) == f

inicio_semana(f) == RestarDias(f, Weekday(f))

fin_semana(f) == SumarDias(f, 6 - Weekday(f))

\* ------------------------------------------------------------------------
\* Owners, flows and inbound updates
\* ------------------------------------------------------------------------

\* Telegram user identifiers.  The first owner sends the events; the second
\* owns rows of the store and stays silent.
Owners == {1, 2}

Senders == {1}

Other == 2

\* The five ConversationHandlers, in the order _register_handlers adds them.
Flows == <<"registrar_dia_actual", "registrar_otro_dia", "eliminar_registro",
           "recuperar_registro_por_fecha", "generar_reporte">>

FlowNames == {Flows[i] : i \in 1..Len(Flows)}

\* entry_points of each ConversationHandler: the state its entry callback returns.
EntryState(f) ==
    CASE f = "registrar_dia_actual" -> ESPERANDO_ACTIVIDADES
      [] f = "registrar_otro_dia" -> ESPERANDO_FECHA
      [] f = "eliminar_registro" -> ESPERANDO_FECHA_ELIMINAR
      [] f = "recuperar_registro_por_fecha" -> ESPERANDO_FECHA_CONSULTA
      [] f = "generar_reporte" -> ESPERANDO_MES_REPORTE

\* states of each ConversationHandler: the callback registered for a state.
StateCallback(st) ==
    CASE st = ESPERANDO_ACTIVIDADES -> "procesar_actividades_hoy"
      [] st = ESPERANDO_FECHA -> "recibir_fecha_otro_dia"
      [] st = ESPERANDO_ACTIVIDADES_OTRO_DIA -> "procesar_actividades_otro_dia"
      [] st = ESPERANDO_FECHA_ELIMINAR -> "mostrar_registros_eliminar"
      [] st = ESPERANDO_SELECCION_ELIMINAR -> "confirmar_eliminacion"
      [] st = ESPERANDO_FECHA_CONSULTA -> "mostrar_registros_fecha"
      [] st = ESPERANDO_MES_REPORTE -> "procesar_reporte"

\* The states each ConversationHandler declares.
FlowStates(f) ==
    CASE f = "registrar_dia_actual" -> {ESPERANDO_ACTIVIDADES}
      [] f = "registrar_otro_dia" -> {ESPERANDO_FECHA, ESPERANDO_ACTIVIDADES_OTRO_DIA}
      [] f = "eliminar_registro" -> {ESPERANDO_FECHA_ELIMINAR, ESPERANDO_SELECCION_ELIMINAR}
      [] f = "recuperar_registro_por_fecha" -> {ESPERANDO_FECHA_CONSULTA}
      [] f = "generar_reporte" -> {ESPERANDO_MES_REPORTE}

\* Texts an owner sends as a plain message.
TxtFechaIso == <<"2", "0", "2", "6", "-", "0", "2", "-", "1", "0">>

TxtFechaHoy == <<" ", "1", "7", "/", "0", "2", "/", "2", "0", "2", "6">>

TxtParcial == <<"2", "0", "2", "6", "-", "0", "2">>

TxtUno == <<"1">>

TxtDos == <<" ", "2">>

TxtMes == <<"0", "2", "/", "2", "0", "2", "6">>

TxtMesMalo == <<"1", "3", "/", "2", "0", "2", "6">>

TxtMesExtra == <<"0", "2", "/", "2", "0", "2", "6", "/", "1">>

InputTexts ==
    {TxtFechaIso, TxtFechaHoy, TxtParcial, TxtUno, TxtDos, TxtMes, TxtMesMalo,
     TxtMesExtra}

Commands == FlowNames \cup {"cancelar", "start", "ver_semana", "desconocido"}

\* Inbound updates: a command, a plain text message, or a message without text.
Updates ==
    [tipo : {"command"}, command : Commands, texto : {<<>>}]
        \cup [tipo : {"text"}, command : {""}, texto : InputTexts]
        \cup [tipo : {"photo"}, command : {""}, texto : {<<>>}]

\* ------------------------------------------------------------------------
\* user_data: one dict per owner
\* ------------------------------------------------------------------------

EmptyDict == [k \in {} |-> 0]

DictSet(d, key, v) == [k \in DOMAIN d \cup {key} |-> IF k = key THEN v ELSE d[k]]

DictPop(d, key) == [k \in DOMAIN d \ {key} |-> d[k]]

DictGet(d, key, default) == IF key \in DOMAIN d THEN d[key] ELSE default

\* ------------------------------------------------------------------------
\* Persistence gateway (app/services/db_service.py)
\* ------------------------------------------------------------------------

Range(s) == {s[i] : i \in DOMAIN s}

\* An ORDER BY with the creation time descending.
Menor_desc(a, b, orden) ==
    IF orden = "created_at" THEN a.created_at > b.created_at
    ELSE \/ DateLess(a.fecha, b.fecha)
         \/ a.fecha = b.fecha /\ a.created_at > b.created_at

\* ORDER BY: orden is "created_at" or "fecha, created_at".
Menor(a, b, orden) ==
    IF orden = "created_at" THEN a.created_at < b.created_at
    ELSE \/ DateLess(a.fecha, b.fecha)
         \/ a.fecha = b.fecha /\ a.created_at < b.created_at

\* The rows of S as a list in ascending order.
RECURSIVE Ordenar(_, _)
Ordenar(S, orden) ==
    IF S = {} THEN <<>>
    ELSE LET m == CHOOSE x \in S : \A y \in S \ {x} : Menor(x, y, orden)
         IN  <<m>> \o Ordenar(S \ {m}, orden)

\* One row of registros_tiempo.  The store generates id and created_at; the
\* rows get increasing creation times in the order they are inserted.
Fila(id, telegram_id, fecha, act) ==
    [id |-> id, fecha |-> fecha, usuario_telegram_id |-> telegram_id,
     descripcion |-> act.descripcion, proyecto |-> act.proyecto,
     categoria |-> act.categoria, horas_estimadas |-> act.horas_estimadas,
     created_at |-> id]

\* The rows the first n INSERT statements of a batch return.
FilasInsertadas(next, telegram_id, fecha, actividades, n) ==
    [i \in 1..n |-> Fila(next + i - 1, telegram_id, fecha, actividades[i])]

\* A batch that keeps the rows inserted before the failing one.
crear_registros_sin_transaccion(tabla, next, telegram_id, fecha, actividades, falla) ==
    LET n == IF falla = 0 THEN Len(actividades) ELSE falla - 1
        filas == FilasInsertadas(next, telegram_id, fecha, actividades, n)
    IN  [ok |-> falla = 0, tabla |-> tabla \cup Range(filas),
         registros |-> IF falla = 0 THEN filas ELSE <<>>, next |-> next + n]

\* crear_registros: every INSERT of the batch runs inside conn.transaction().
\* falla is the index of the INSERT that raises (0: none does).  An exception
\* leaves the transaction block, which rolls back the rows inserted so far.
crear_registros(tabla, next, telegram_id, fecha, actividades, falla) ==
    LET filas == FilasInsertadas(next, telegram_id, fecha, actividades,
                                 Len(actividades))
    IN  IF falla = 0
        THEN [ok |-> TRUE, tabla |-> tabla \cup Range(filas),
              registros |-> filas, next |-> next + Len(actividades)]
        ELSE [ok |-> FALSE, tabla |-> tabla, registros |-> <<>>, next |-> next]

\* A lookup by date that forgets the owner.
obtener_registros_por_fecha_sin_owner(tabla, telegram_id, fecha) ==
    Ordenar({r \in tabla : r.fecha = fecha}, "created_at")

\* obtener_registros_por_fecha: WHERE usuario_telegram_id = $1 AND fecha = $2
\* ORDER BY created_at ASC.
obtener_registros_por_fecha(tabla, telegram_id, fecha) ==
    Ordenar({r \in tabla : r.usuario_telegram_id = telegram_id /\ r.fecha = fecha},
            "created_at")

\* A month query that forgets the owner.
obtener_registros_mes_sin_owner(tabla, telegram_id, anio, mes) ==
    Ordenar({r \in tabla : r.fecha[1] = anio /\ r.fecha[2] = mes},
            "fecha, created_at")

\* obtener_registros_mes: the owner's rows of one year and month,
\* ORDER BY fecha ASC, created_at ASC.
obtener_registros_mes(tabla, telegram_id, anio, mes) ==
    Ordenar({r \in tabla : /\ r.usuario_telegram_id = telegram_id
                           /\ r.fecha[1] = anio
                           /\ r.fecha[2] = mes},
            "fecha, created_at")

obtener_registros_semana_sin_owner(tabla, telegram_id, fecha_inicio, fecha_fin) ==
    Ordenar({r \in tabla : /\ ~DateLess(r.fecha, fecha_inicio)
                           /\ ~DateLess(fecha_fin, r.fecha)},
            "fecha, created_at")

\* obtener_registros_semana: the owner's rows with fecha BETWEEN the two
\* dates, ORDER BY fecha ASC, created_at ASC.
obtener_registros_semana(tabla, telegram_id, fecha_inicio, fecha_fin) ==
    Ordenar({r \in tabla : /\ r.usuario_telegram_id = telegram_id
                           /\ ~DateLess(r.fecha, fecha_inicio)
                           /\ ~DateLess(fecha_fin, r.fecha)},
            "fecha, created_at")

\* A delete that forgets the ownership check.
eliminar_registro_sin_owner(tabla, registro_id, telegram_id) ==
    LET hit == {r \in tabla : r.id = registro_id}
    IN  [deleted |-> Cardinality(hit) = 1, tabla |-> tabla \ hit]

\* eliminar_registro: DELETE ... WHERE id = $1 AND usuario_telegram_id = $2;
\* the result is whether the statement answered "DELETE 1".
eliminar_registro(tabla, registro_id, telegram_id) ==
    LET hit == {r \in tabla : r.id = registro_id /\ r.usuario_telegram_id = telegram_id}
    IN  [deleted |-> Cardinality(hit) = 1, tabla |-> tabla \ hit]

\* ------------------------------------------------------------------------
\* Extraction client (app/services/gemini_service.py, app/models/schemas.py)
\* ------------------------------------------------------------------------

Categorias == {"proyectoFacturable", "proyectoNoFacturable", "otrosNoFacturable"}

ActA == [descripcion |-> "Reunion de planning", proyecto |-> "Alpha",
         categoria |-> "proyectoFacturable", horas_estimadas |-> 200]

ActB == [descripcion |-> "Revision de codigo", proyecto |-> "Beta",
         categoria |-> "proyectoNoFacturable", horas_estimadas |-> 300]

ActMala == [descripcion |-> "Test", proyecto |-> "Project",
            categoria |-> "categoriaInvalida", horas_estimadas |-> 200]

ActCero == [descripcion |-> "Pausa", proyecto |-> "Alpha",
            categoria |-> "otrosNoFacturable", horas_estimadas |-> 0]

ActExceso == [descripcion |-> "Guardia", proyecto |-> "Beta",
              categoria |-> "otrosNoFacturable", horas_estimadas |-> 2401]

\* A schema without field constraints.
ActividadGemini_sin_validar(a) == TRUE

\* ActividadGemini: the field constraints of one activity; hours are in
\* hundredths, gt=0 and le=24.
ActividadGemini(a) ==
    /\ a.descripcion # ""
    /\ a.proyecto # ""
    /\ a.categoria \in Categorias
    /\ a.horas_estimadas > 0
    /\ a.horas_estimadas <= 2400

\* A wrapper schema without min_length.
RespuestaGemini_sin_minimo(actividades) ==
    \A i \in 1..Len(actividades) : ActividadGemini(actividades[i])

\* RespuestaGemini: a list of at least one valid activity.
RespuestaGemini(actividades) ==
    Len(actividades) >= 1 /\ \A i \in 1..Len(actividades) : ActividadGemini(actividades[i])

\* What the external model does on one attempt: the call raises
\* ("api_error"), the response has no readable text ("no_text": reading
\* response.text raises ValueError), the text is empty ("empty"), is not
\* JSON ("bad_json"), or is a JSON payload with a list of activities.
Respuestas ==
    [tipo : {"api_error", "no_text", "empty", "bad_json"}, actividades : {<<>>}]
        \cup [tipo : {"json"},
              actividades : {<<>>, <<ActA>>, <<ActB, ActA>>, <<ActMala>>,
                             <<ActA, ActCero>>, <<ActExceso>>}]

\* One run of the body of procesar_actividades.
Intento(resp) ==
    CASE resp.tipo = "api_error" ->
            [ok |-> FALSE, error |-> "GeminiProcessingError",
             detalle |-> "Error calling Gemini API", actividades |-> <<>>]
      [] resp.tipo = "no_text" ->
            [ok |-> FALSE, error |-> "ValueError",
             detalle |-> "response.text has no valid Part", actividades |-> <<>>]
      [] resp.tipo = "empty" ->
            [ok |-> FALSE, error |-> "GeminiProcessingError",
             detalle |-> "Gemini returned an empty response", actividades |-> <<>>]
      [] resp.tipo = "bad_json" ->
            [ok |-> FALSE, error |-> "GeminiProcessingError",
             detalle |-> "Invalid JSON from Gemini", actividades |-> <<>>]
      [] resp.tipo = "json" ->
            IF RespuestaGemini(resp.actividades)
            THEN [ok |-> TRUE, error |-> "", detalle |-> "",
                  actividades |-> resp.actividades]
            ELSE [ok |-> FALSE, error |-> "GeminiProcessingError",
                  detalle |-> "Response validation failed", actividades |-> <<>>]

\* stop_after_attempt(3) of the retry decorator.
STOP_AFTER_ATTEMPT == 3

\* The retry decorator: run the body again after any exception, at most
\* STOP_AFTER_ATTEMPT times; reraise=True raises the last attempt's exception.
RECURSIVE Reintentar(_, _)
Reintentar(resps, i) ==
    LET r == Intento(resps[i])
    IN  IF r.ok \/ i >= STOP_AFTER_ATTEMPT
        THEN [ok |-> r.ok, error |-> r.error, detalle |-> r.detalle,
              actividades |-> r.actividades, intentos |-> i]
        ELSE Reintentar(resps, i + 1)

\* procesar_actividades(texto_usuario): resps[i] is what the external model
\* does on attempt i.
procesar_actividades(resps) == Reintentar(resps, 1)

\* Every way a call of procesar_actividades can end.
Extracciones ==
    {procesar_actividades(resps) : resps \in [1..STOP_AFTER_ATTEMPT -> Respuestas]}

\* wait_exponential(multiplier=1, min=2, max=30) of the retry decorator.
WAIT_MULTIPLIER == 1

WAIT_MIN == 2

WAIT_MAX == 30

Min2(a, b) == IF a <= b THEN a ELSE b

Max2(a, b) == IF a >= b THEN a ELSE b

\* The seconds slept after attempt attempt_number failed: multiplier times
\* 2 to the power attempt_number - 1, brought into [min, max].
wait_exponential(attempt_number) ==
    Max2(WAIT_MIN, Min2(WAIT_MULTIPLIER * 2 ^ (attempt_number - 1), WAIT_MAX))

\* One call of procesar_actividades in progress: the responses of the model
\* to the attempts made, the waits slept between them, and how it ended.
Llamando == [fase |-> "running", respuestas |-> <<>>, esperas |-> <<>>,
             error |-> "", detalle |-> "", actividades |-> <<>>]

\* A retry decorator without reraise=True: the last failure is wrapped.
RetryStep_sin_reraise(e, resp) ==
    LET r == Intento(resp)
        n == Len(e.respuestas) + 1
        hechas == Append(e.respuestas, resp)
    IN  IF r.ok
        THEN [e EXCEPT !.fase = "returned", !.respuestas = hechas,
                       !.actividades = r.actividades]
        ELSE IF n >= STOP_AFTER_ATTEMPT
        THEN [e EXCEPT !.fase = "raised", !.respuestas = hechas,
                       !.error = "RetryError", !.detalle = r.detalle]
        ELSE [e EXCEPT !.respuestas = hechas,
                       !.esperas = Append(e.esperas, wait_exponential(n))]

\* One attempt of the decorated procesar_actividades: the body runs with the
\* model answering resp; a result is returned; an exception is raised again
\* after the attempt STOP_AFTER_ATTEMPT and otherwise slept on and retried.
RetryStep(e, resp) ==
    LET r == Intento(resp)
        n == Len(e.respuestas) + 1
        hechas == Append(e.respuestas, resp)
    IN  IF r.ok
        THEN [e EXCEPT !.fase = "returned", !.respuestas = hechas,
                       !.actividades = r.actividades]
        ELSE IF n >= STOP_AFTER_ATTEMPT
        THEN [e EXCEPT !.fase = "raised", !.respuestas = hechas,
                       !.error = r.error, !.detalle = r.detalle]
        ELSE [e EXCEPT !.respuestas = hechas,
                       !.esperas = Append(e.esperas, wait_exponential(n))]

\* ------------------------------------------------------------------------
\* Conversation callbacks (app/bot/conversations.py, app/bot/handlers.py)
\* ------------------------------------------------------------------------

\* One outbound message: reply_text or reply_document to the sender.
\* hasta is the upper end of a range 1..hasta the text states and total the
\* hours total it states (hundredths of an hour); 0 when it states none.
Msg(to, tipo, detalle, fecha, registros) ==
    [to |-> to, tipo |-> tipo, detalle |-> detalle, fecha |-> fecha,
     registros |-> registros, hasta |-> 0, total |-> 0]

\* sum(... horas_estimadas ...) over a list of activities or rows.
RECURSIVE SumaHoras(_)
SumaHoras(lista) ==
    IF lista = <<>> THEN 0
    ELSE lista[1].horas_estimadas + SumaHoras(Tail(lista))

\* formatear_resumen: the summary of the activities just recorded.
formatear_resumen(o, actividades, fecha) ==
    [Msg(o, "resumen", "", fecha, actividades) EXCEPT !.total = SumaHoras(actividades)]

\* An error handler that only logs.
error_handler_sin_aviso(to) == Msg(to, "", "", NoDate, <<>>)

\* error_handler: the notice sent when a callback raises.
error_handler(to) == Msg(to, "error_inesperado", "", NoDate, <<>>)

\* What one callback does: the state it returns (ret) or that it raised, the
\* owner's user_data, the table, the identifier counter, the messages it
\* sent, how the extraction ended and how the database call ended.
Res(ret, raised, ud, tabla, next, msgs, extraccion, db) ==
    [ret |-> ret, raised |-> raised, ud |-> ud, tabla |-> tabla, next |-> next,
     msgs |-> msgs, extraccion |-> extraccion, db |-> db]

registrar_dia_cmd(o, ud, tabla, next) ==
    Res(ESPERANDO_ACTIVIDADES, FALSE, ud, tabla, next,
        <<Msg(o, "que_hiciste_hoy", "", NoDate, <<>>)>>, "", "")

\* Registrar with the summary sent whatever the insert did.
Registrar_resumen_sin_commit(o, ud, udOk, tabla, next, fecha, ex, falla, tipoError) ==
    LET procesando == <<Msg(o, "procesando", "", NoDate, <<>>)>>
        cr == crear_registros(tabla, next, o, fecha, ex.actividades, falla)
    IN  IF ~ex.ok /\ ex.error = "GeminiProcessingError"
        THEN Res(END, FALSE, ud, tabla, next,
                 procesando \o <<Msg(o, tipoError, ex.detalle, NoDate, <<>>)>>,
                 ex.error, "")
        ELSE IF ~ex.ok
        THEN Res(NoConversation, TRUE, ud, tabla, next,
                 procesando \o <<error_handler(o)>>, ex.error, "")
        ELSE Res(END, FALSE, udOk, cr.tabla, cr.next,
                 procesando \o <<formatear_resumen(o, ex.actividades, fecha)>>,
                 "ok", IF cr.ok THEN "ok" ELSE "error")

\* The two register callbacks share their body but for the date and for
\* what they do to user_data after the summary.  ex is what the call of
\* gemini_service.procesar_actividades ended with.
Registrar(o, ud, udOk, tabla, next, fecha, ex, falla, tipoError) ==
    LET procesando == <<Msg(o, "procesando", "", NoDate, <<>>)>>
        cr == crear_registros(tabla, next, o, fecha, ex.actividades, falla)
    IN  IF ~ex.ok /\ ex.error = "GeminiProcessingError"
        THEN Res(END, FALSE, ud, tabla, next,
                 procesando \o <<Msg(o, tipoError, ex.detalle, NoDate, <<>>)>>,
                 ex.error, "")
        ELSE IF ~ex.ok
        THEN Res(NoConversation, TRUE, ud, tabla, next,
                 procesando \o <<error_handler(o)>>, ex.error, "")
        ELSE IF ~cr.ok
        THEN Res(END, FALSE, ud, cr.tabla, cr.next,
                 procesando \o <<Msg(o, "error_al_guardar", "", NoDate, <<>>)>>,
                 "ok", "error")
        ELSE Res(END, FALSE, udOk, cr.tabla, cr.next,
                 procesando \o <<formatear_resumen(o, ex.actividades, fecha)>>,
                 "ok", "ok")

procesar_actividades_hoy(o, ud, tabla, next, ex, falla) ==
    Registrar(o, ud, ud, tabla, next, fecha_colombia_hoy, ex, falla,
              "no_pude_procesar_hoy")

registrar_otro_dia_cmd(o, ud, tabla, next) ==
    Res(ESPERANDO_FECHA, FALSE, ud, tabla, next,
        <<Msg(o, "para_que_fecha", "", NoDate, <<>>)>>, "", "")

\* A date step that goes on whatever the reply is.
recibir_fecha_otro_dia_sin_validar(o, ud, tabla, next, texto) ==
    LET fecha == parsear_fecha(texto)
    IN  Res(ESPERANDO_ACTIVIDADES_OTRO_DIA, FALSE,
            DictSet(ud, "fecha_registro", fecha), tabla, next,
            <<Msg(o, "registrando_para", "", fecha, <<>>)>>, "", "")

recibir_fecha_otro_dia(o, ud, tabla, next, texto) ==
    LET fecha == parsear_fecha(texto)
    IN  IF fecha = NoDate
        THEN Res(ESPERANDO_FECHA, FALSE, ud, tabla, next,
                 <<Msg(o, "fecha_invalida", "", NoDate, <<>>)>>, "", "")
        ELSE Res(ESPERANDO_ACTIVIDADES_OTRO_DIA, FALSE,
                 DictSet(ud, "fecha_registro", fecha), tabla, next,
                 <<Msg(o, "registrando_para", "", fecha, <<>>)>>, "", "")

procesar_actividades_otro_dia(o, ud, tabla, next, ex, falla) ==
    Registrar(o, ud, DictPop(ud, "fecha_registro"), tabla, next,
              DictGet(ud, "fecha_registro", fecha_colombia_hoy), ex, falla,
              "no_pude_procesar")

eliminar_registro_cmd(o, ud, tabla, next) ==
    Res(ESPERANDO_FECHA_ELIMINAR, FALSE, ud, tabla, next,
        <<Msg(o, "de_que_fecha_eliminar", "", NoDate, <<>>)>>, "", "")

\* formatear_registros: the notice for an empty list, else the listing.
formatear_registros(o, registros, fecha) ==
    IF registros = <<>> THEN Msg(o, "no_hay_registros", "", fecha, <<>>)
    ELSE [Msg(o, "registros_del_dia", "", fecha, registros)
              EXCEPT !.total = SumaHoras(registros)]

\* dbfalla: the lookup raises; nothing in the callback catches it.
mostrar_registros_eliminar(o, ud, tabla, next, texto, dbfalla) ==
    LET fecha == parsear_fecha(texto)
        registros == obtener_registros_por_fecha(tabla, o, fecha)
    IN  IF fecha = NoDate
        THEN Res(ESPERANDO_FECHA_ELIMINAR, FALSE, ud, tabla, next,
                 <<Msg(o, "fecha_invalida", "", NoDate, <<>>)>>, "", "")
        ELSE IF dbfalla
        THEN Res(NoConversation, TRUE, ud, tabla, next, <<error_handler(o)>>,
                 "", "error")
        ELSE IF registros = <<>>
        THEN Res(END, FALSE, ud, tabla, next,
                 <<Msg(o, "no_hay_registros", "", fecha, <<>>)>>, "", "ok")
        ELSE Res(ESPERANDO_SELECCION_ELIMINAR, FALSE,
                 DictSet(ud, "registros_eliminar", registros), tabla, next,
                 <<[formatear_registros(o, registros, fecha)
                       EXCEPT !.tipo = "registros_y_elige"]>>, "", "ok")

\* confirmar_eliminacion that does not look at what the delete returned.
confirmar_eliminacion_sin_comprobar(o, ud, tabla, next, texto, dbfalla) ==
    LET registros == DictGet(ud, "registros_eliminar", <<>>)
        seleccion == ParseInt(Strip(texto))
        registro == registros[seleccion[2]]
        del == eliminar_registro(tabla, registro.id, o)
    IN  IF ~seleccion[1]
        THEN Res(ESPERANDO_SELECCION_ELIMINAR, FALSE, ud, tabla, next,
                 <<Msg(o, "solo_el_numero", "", NoDate, <<>>)>>, "", "")
        ELSE IF seleccion[2] < 1 \/ seleccion[2] > Len(registros)
        THEN Res(ESPERANDO_SELECCION_ELIMINAR, FALSE, ud, tabla, next,
                 <<[Msg(o, "numero_invalido", "", NoDate, <<>>)
                       EXCEPT !.hasta = Len(registros)]>>, "", "")
        ELSE IF dbfalla
        THEN Res(NoConversation, TRUE, ud, tabla, next, <<error_handler(o)>>,
                 "", "error")
        ELSE Res(END, FALSE, DictPop(ud, "registros_eliminar"), del.tabla, next,
                 <<Msg(o, "registro_eliminado", "", NoDate, <<registro>>)>>,
                 "", "ok")

confirmar_eliminacion(o, ud, tabla, next, texto, dbfalla) ==
    LET registros == DictGet(ud, "registros_eliminar", <<>>)
        seleccion == ParseInt(Strip(texto))
        registro == registros[seleccion[2]]
        del == eliminar_registro(tabla, registro.id, o)
    IN  IF ~seleccion[1]
        THEN Res(ESPERANDO_SELECCION_ELIMINAR, FALSE, ud, tabla, next,
                 <<Msg(o, "solo_el_numero", "", NoDate, <<>>)>>, "", "")
        ELSE IF seleccion[2] < 1 \/ seleccion[2] > Len(registros)
        THEN Res(ESPERANDO_SELECCION_ELIMINAR, FALSE, ud, tabla, next,
                 <<[Msg(o, "numero_invalido", "", NoDate, <<>>)
                       EXCEPT !.hasta = Len(registros)]>>, "", "")
        ELSE IF dbfalla
        THEN Res(NoConversation, TRUE, ud, tabla, next, <<error_handler(o)>>,
                 "", "error")
        ELSE Res(END, FALSE, DictPop(ud, "registros_eliminar"), del.tabla, next,
                 <<Msg(o, IF del.deleted THEN "registro_eliminado"
                          ELSE "no_se_pudo_eliminar",
                       "", NoDate, IF del.deleted THEN <<registro>> ELSE <<>>)>>,
                 "", "ok")

recuperar_registro_cmd(o, ud, tabla, next) ==
    Res(ESPERANDO_FECHA_CONSULTA, FALSE, ud, tabla, next,
        <<Msg(o, "de_que_fecha_consultar", "", NoDate, <<>>)>>, "", "")

mostrar_registros_fecha(o, ud, tabla, next, texto, dbfalla) ==
    LET fecha == parsear_fecha(texto)
        registros == obtener_registros_por_fecha(tabla, o, fecha)
    IN  IF fecha = NoDate
        THEN Res(ESPERANDO_FECHA_CONSULTA, FALSE, ud, tabla, next,
                 <<Msg(o, "fecha_invalida", "", NoDate, <<>>)>>, "", "")
        ELSE IF dbfalla
        THEN Res(NoConversation, TRUE, ud, tabla, next, <<error_handler(o)>>,
                 "", "error")
        ELSE Res(END, FALSE, ud, tabla, next,
                 <<formatear_registros(o, registros, fecha)>>, "", "ok")

generar_reporte_cmd(o, ud, tabla, next) ==
    Res(ESPERANDO_MES_REPORTE, FALSE, ud, tabla, next,
        <<Msg(o, "para_que_mes", "", NoDate, <<>>)>>, "", "")

\* The first year procesar_reporte accepts.
ANIO_MINIMO == 2020

\* The parse of the month reply: <<accepted, year, month>>.  The text is
\* stripped and split at "/"; the first two parts are read with int(), any
\* further part is never looked at; a missing second part is the IndexError.
MesAnio(texto) ==
    LET partes == Split(Strip(texto), "/")
        mes == ParseInt(partes[1])
        anio == IF Len(partes) >= 2 THEN ParseInt(partes[2]) ELSE <<FALSE, 0>>
    IN  << /\ mes[1]
           /\ anio[1]
           /\ 1 <= mes[2]
           /\ mes[2] <= 12
           /\ anio[2] >= ANIO_MINIMO,
           anio[2], mes[2] >>

procesar_reporte(o, ud, tabla, next, texto, dbfalla) ==
    LET ma == MesAnio(texto)
        valido == ma[1]
        anio == <<TRUE, ma[2]>>
        mes == <<TRUE, ma[3]>>
        registros == obtener_registros_mes(tabla, o, anio[2], mes[2])
        generando == <<Msg(o, "generando", "", NoDate, <<>>)>>
    IN  IF ~valido
        THEN Res(ESPERANDO_MES_REPORTE, FALSE, ud, tabla, next,
                 <<Msg(o, "formato_invalido", "", NoDate, <<>>)>>, "", "")
        ELSE IF dbfalla
        THEN Res(NoConversation, TRUE, ud, tabla, next,
                 generando \o <<error_handler(o)>>, "", "error")
        ELSE IF registros = <<>>
        THEN Res(END, FALSE, ud, tabla, next,
                 generando \o <<Msg(o, "no_hay_registros_mes", "", <<anio[2], mes[2], 0>>, <<>>)>>,
                 "", "ok")
        ELSE Res(END, FALSE, ud, tabla, next,
                 generando \o <<Msg(o, "documento", "", <<anio[2], mes[2], 0>>, registros)>>,
                 "", "ok")

cancelar(o, ud, tabla, next) ==
    Res(END, FALSE, EmptyDict, tabla, next,
        <<Msg(o, "operacion_cancelada", "", NoDate, <<>>)>>, "", "")

\* timeout: logs and returns END; it sends nothing.
timeout(o, ud, tabla, next) == Res(END, FALSE, ud, tabla, next, <<>>, "", "")

start_cmd(o, ud, tabla, next) ==
    Res(NoConversation, FALSE, ud, tabla, next,
        <<Msg(o, "bienvenida", "", NoDate, <<>>)>>, "", "")

\* ver_semana_cmd: the owner's rows of the current week, Monday to Sunday.
\* dbfalla: the lookup raises.
ver_semana_cmd(o, ud, tabla, next, dbfalla) ==
    LET lunes == inicio_semana(fecha_colombia_hoy)
        domingo == fin_semana(fecha_colombia_hoy)
        registros == obtener_registros_semana(tabla, o, lunes, domingo)
    IN  IF dbfalla
        THEN Res(NoConversation, TRUE, ud, tabla, next, <<error_handler(o)>>,
                 "", "error")
        ELSE Res(NoConversation, FALSE, ud, tabla, next,
                 <<[Msg(o, IF registros = <<>> THEN "no_hay_registros_semana"
                           ELSE "resumen_semanal",
                        "", lunes, registros)
                       EXCEPT !.total = SumaHoras(registros)]>>, "", "ok")

\* ------------------------------------------------------------------------
\* State
\* ------------------------------------------------------------------------

VARIABLES
    conversations,     \* per owner and flow: the state of that ConversationHandler
    timeout_jobs,      \* per owner and flow: whether its timeout job is scheduled
    user_data,         \* per owner: context.user_data
    registros_tiempo,  \* the rows of the table registros_tiempo
    next_id,           \* the next identifier the store generates
    fecha_sesion,      \* per owner: the date given in the date step of the
                       \* register-other-day session in progress
    llamada,           \* the last direct call of a gateway operation: its
                       \* arguments and what it returned
    retry,             \* the direct call of procesar_actividades in progress
                       \* or last made
    listados,          \* per owner: the records the delete session in progress
                       \* displayed for selection
    requests,          \* the webhook requests being handled: where each one
                       \* is suspended and what it has done
    estados_usuarios,  \* the rows of the table estados_usuarios
    prueba             \* the direct call of a pure function: its argument
                       \* and its result

vars == <<conversations, timeout_jobs, user_data, registros_tiempo, next_id,
          fecha_sesion, llamada, retry, listados, requests, estados_usuarios,
          prueba>>

\* The variables only the webhook, the session mirror and the direct calls
\* of pure functions use.
otras == <<requests, estados_usuarios, prueba>>

\* The other date the first owner names (TxtFechaIso).
OtraFecha == <<2026, 2, 10>>

\* The rows of the second owner: one for each date the first owner can name.
FilasIniciales ==
    {Fila(1, Other, fecha_colombia_hoy, ActA), Fila(2, Other, OtraFecha, ActB)}

PrimerId == Cardinality(FilasIniciales) + 1

Llamada(op, telegram_id, fecha, actividades, falla, registro_id, ok, registros) ==
    [op |-> op, telegram_id |-> telegram_id, fecha |-> fecha,
     actividades |-> actividades, falla |-> falla, registro_id |-> registro_id,
     ok |-> ok, registros |-> registros]

\* No webhook request is being handled and no session has begun.
SinRequests ==
    [sesion |-> 0, en_vuelo |-> <<>>, inserts |-> <<>>, status |-> 0,
     hubo_error |-> FALSE]

\* No pure function has been called.
SinPrueba == [op |-> "", arg |-> <<>>, res |-> <<>>, hecho |-> FALSE]

InitCon(p) ==
    /\ conversations = [o \in Owners |-> [f \in FlowNames |-> NoConversation]]
    /\ timeout_jobs = [o \in Owners |-> [f \in FlowNames |-> FALSE]]
    /\ user_data = [o \in Owners |-> EmptyDict]
    /\ registros_tiempo = FilasIniciales
    /\ next_id = PrimerId
    /\ fecha_sesion = [o \in Owners |-> NoDate]
    /\ llamada = Llamada("", 0, NoDate, <<>>, 0, 0, FALSE, <<>>)
    /\ retry = [Llamando EXCEPT !.fase = "idle"]
    /\ listados = [o \in Owners |-> <<>>]
    /\ requests = SinRequests
    /\ estados_usuarios = {}
    /\ prueba = p

Init == InitCon(SinPrueba)

\* ------------------------------------------------------------------------
\* Dispatch (app/main.py _register_handlers, the build_*_handler functions)
\* ------------------------------------------------------------------------

EntryCallback(f) ==
    CASE f = "registrar_dia_actual" -> "registrar_dia_cmd"
      [] f = "registrar_otro_dia" -> "registrar_otro_dia_cmd"
      [] f = "eliminar_registro" -> "eliminar_registro_cmd"
      [] f = "recuperar_registro_por_fecha" -> "recuperar_registro_cmd"
      [] f = "generar_reporte" -> "generar_reporte_cmd"

\* check_update with allow_reentry: the entry command is taken in a
\* waiting state as well.
CheckUpdate_con_reentrada(conv, o, f, u) ==
    IF u.tipo = "command" /\ u.command = f THEN EntryCallback(f)
    ELSE IF conv[o][f] = NoConversation THEN ""
    ELSE IF u.tipo = "text" THEN StateCallback(conv[o][f])
    ELSE IF u.tipo = "command" /\ u.command = "cancelar" THEN "cancelar"
    ELSE ""

\* check_update of the ConversationHandler of flow f for owner o: the
\* callback that takes the update, or "" when the handler passes.  Without a
\* conversation only the entry point is tried; within one, the handlers of
\* the current state (plain text only) and then the fallback /cancelar.
CheckUpdate(conv, o, f, u) ==
    IF conv[o][f] = NoConversation
    THEN IF u.tipo = "command" /\ u.command = f THEN EntryCallback(f) ELSE ""
    ELSE IF u.tipo = "text" THEN StateCallback(conv[o][f])
    ELSE IF u.tipo = "command" /\ u.command = "cancelar" THEN "cancelar"
    ELSE ""

\* process_update: within the one handler group the first handler, in the
\* order of registration, whose check_update accepts takes the update and
\* the others are not asked.  The result is <<flow, callback>>; the plain
\* CommandHandlers for /start and /ver_semana come after the five
\* ConversationHandlers.
RECURSIVE Primero(_, _, _, _)
Primero(conv, o, u, i) ==
    IF i > Len(Flows) THEN 0
    ELSE IF CheckUpdate(conv, o, Flows[i], u) # "" THEN i
    ELSE Primero(conv, o, u, i + 1)

Selected(conv, o, u) ==
    LET first == Primero(conv, o, u, 1)
    IN  IF first # 0 THEN <<Flows[first], CheckUpdate(conv, o, Flows[first], u)>>
        ELSE IF u.tipo = "command" /\ u.command = "start" THEN <<"", "start_cmd">>
        ELSE IF u.tipo = "command" /\ u.command = "ver_semana"
        THEN <<"", "ver_semana_cmd">>
        ELSE <<"", "">>

\* ConversationHandler.handle_update around a callback of flow f: the timeout
\* job of the conversation is removed before the callback runs; when the
\* callback returns, a new job is scheduled unless it returned END and the
\* state is stored (END removes the conversation).  When the callback raises,
\* neither happens.
NuevoEstado(conv, o, f, res) ==
    IF res.raised THEN conv
    ELSE [conv EXCEPT ![o][f] = IF res.ret = END THEN NoConversation ELSE res.ret]

NuevoJob(jobs, o, f, res) ==
    [jobs EXCEPT ![o][f] = ~res.raised /\ res.ret # END]

\* The records on display in the delete session after a callback of flow f:
\* those of the listing the callback sent, none once that session ended.
ListadosTras(o, f, res) ==
    IF f # "eliminar_registro" \/ res.raised THEN listados[o]
    ELSE IF res.ret = END THEN <<>>
    ELSE IF \E i \in 1..Len(res.msgs) : res.msgs[i].tipo = "registros_y_elige"
    THEN res.msgs[CHOOSE i \in 1..Len(res.msgs) :
                      res.msgs[i].tipo = "registros_y_elige"].registros
    ELSE listados[o]

\* The effect of one update of owner o that a callback of flow f handled with
\* result res; fs is the date of the register-other-day session afterwards.
Aplicar(o, f, res, fs) ==
    /\ conversations' = NuevoEstado(conversations, o, f, res)
    /\ timeout_jobs' = NuevoJob(timeout_jobs, o, f, res)
    /\ user_data' = [user_data EXCEPT ![o] = res.ud]
    /\ registros_tiempo' = res.tabla
    /\ next_id' = res.next
    /\ fecha_sesion' = [fecha_sesion EXCEPT ![o] = fs]
    /\ listados' = [listados EXCEPT ![o] = ListadosTras(o, f, res)]
    /\ UNCHANGED <<llamada, retry>>
    /\ UNCHANGED otras

\* The date of the register-other-day session after a callback of flow f
\* that is not its date step: gone when that flow's conversation ended.
FechaSesionTras(o, f, res) ==
    IF f = "registrar_otro_dia" /\ ~res.raised /\ res.ret = END THEN NoDate
    ELSE fecha_sesion[o]

\* ------------------------------------------------------------------------
\* Actions: one per callback
\* ------------------------------------------------------------------------

Comando(c) == [tipo |-> "command", command |-> c, texto |-> <<>>]

Texto(t) == [tipo |-> "text", command |-> "", texto |-> t]

\* The flow and callback that take a plain text message of owner o; the
\* filters read that it is text and not a command, never the text itself.
TomaTexto(o) == Selected(conversations, o, Texto(<<>>))

\* The callback an entry command of flow f reaches, as an operator result.
EntryRes(o, f, ud, tabla, next) ==
    CASE f = "registrar_dia_actual" -> registrar_dia_cmd(o, ud, tabla, next)
      [] f = "registrar_otro_dia" -> registrar_otro_dia_cmd(o, ud, tabla, next)
      [] f = "eliminar_registro" -> eliminar_registro_cmd(o, ud, tabla, next)
      [] f = "recuperar_registro_por_fecha" -> recuperar_registro_cmd(o, ud, tabla, next)
      [] f = "generar_reporte" -> generar_reporte_cmd(o, ud, tabla, next)

\* The entry command of flow f reaches its entry callback.
Entrada(o, f) ==
    LET res == EntryRes(o, f, user_data[o], registros_tiempo, next_id)
    IN  /\ Selected(conversations, o, Comando(f)) = <<f, EntryCallback(f)>>
        /\ Aplicar(o, f, res, fecha_sesion[o])

RegistrarDiaCmd(o) == Entrada(o, "registrar_dia_actual")

RegistrarOtroDiaCmd(o) == Entrada(o, "registrar_otro_dia")

EliminarRegistroCmd(o) == Entrada(o, "eliminar_registro")

RecuperarRegistroCmd(o) == Entrada(o, "recuperar_registro_por_fecha")

GenerarReporteCmd(o) == Entrada(o, "generar_reporte")

\* The store creates at most MaxRecords rows in one behaviour.
Cabe(ex) == next_id + Len(ex.actividades) <= PrimerId + MaxRecords

\* The text of a message that describes activities; the callbacks pass it to
\* the extraction client and read nothing from it.
TxtActividades == <<"R", "e", "u", "n", "i", "o", "n", " ", "2", "h">>

ProcesarActividadesHoyCon(o, ex, falla) ==
    LET f == "registrar_dia_actual"
        res == procesar_actividades_hoy(o, user_data[o], registros_tiempo,
                                        next_id, ex, falla)
    IN  /\ Selected(conversations, o, Texto(TxtActividades))
               = <<f, "procesar_actividades_hoy">>
        /\ Cabe(ex)
        /\ Aplicar(o, f, res, FechaSesionTras(o, f, res))

ProcesarActividadesHoy(o) ==
    /\ TomaTexto(o) = <<"registrar_dia_actual", "procesar_actividades_hoy">>
    /\ \E ex \in Extracciones :
           \E falla \in 0..Len(ex.actividades) : ProcesarActividadesHoyCon(o, ex, falla)

RecibirFechaOtroDiaCon(o, t) ==
    LET f == "registrar_otro_dia"
        res == recibir_fecha_otro_dia(o, user_data[o], registros_tiempo, next_id, t)
    IN  /\ Selected(conversations, o, Texto(t)) = <<f, "recibir_fecha_otro_dia">>
        /\ Aplicar(o, f, res, parsear_fecha(t))

RecibirFechaOtroDia(o) ==
    /\ TomaTexto(o) = <<"registrar_otro_dia", "recibir_fecha_otro_dia">>
    /\ \E t \in InputTexts : RecibirFechaOtroDiaCon(o, t)

ProcesarActividadesOtroDiaCon(o, ex, falla) ==
    LET f == "registrar_otro_dia"
        res == procesar_actividades_otro_dia(o, user_data[o], registros_tiempo,
                                             next_id, ex, falla)
    IN  /\ Selected(conversations, o, Texto(TxtActividades))
               = <<f, "procesar_actividades_otro_dia">>
        /\ Cabe(ex)
        /\ Aplicar(o, f, res, FechaSesionTras(o, f, res))

ProcesarActividadesOtroDia(o) ==
    /\ TomaTexto(o) = <<"registrar_otro_dia", "procesar_actividades_otro_dia">>
    /\ \E ex \in Extracciones :
           \E falla \in 0..Len(ex.actividades) : ProcesarActividadesOtroDiaCon(o, ex, falla)

MostrarRegistrosEliminarCon(o, t, dbfalla) ==
    LET f == "eliminar_registro"
        res == mostrar_registros_eliminar(o, user_data[o], registros_tiempo,
                                          next_id, t, dbfalla)
    IN  /\ Selected(conversations, o, Texto(t)) = <<f, "mostrar_registros_eliminar">>
        /\ Aplicar(o, f, res, FechaSesionTras(o, f, res))

MostrarRegistrosEliminar(o) ==
    /\ TomaTexto(o) = <<"eliminar_registro", "mostrar_registros_eliminar">>
    /\ \E t \in InputTexts, dbfalla \in BOOLEAN : MostrarRegistrosEliminarCon(o, t, dbfalla)

ConfirmarEliminacionCon(o, t, dbfalla) ==
    LET f == "eliminar_registro"
        res == confirmar_eliminacion(o, user_data[o], registros_tiempo,
                                     next_id, t, dbfalla)
    IN  /\ Selected(conversations, o, Texto(t)) = <<f, "confirmar_eliminacion">>
        /\ Aplicar(o, f, res, FechaSesionTras(o, f, res))

ConfirmarEliminacion(o) ==
    /\ TomaTexto(o) = <<"eliminar_registro", "confirmar_eliminacion">>
    /\ \E t \in InputTexts, dbfalla \in BOOLEAN : ConfirmarEliminacionCon(o, t, dbfalla)

MostrarRegistrosFechaCon(o, t, dbfalla) ==
    LET f == "recuperar_registro_por_fecha"
        res == mostrar_registros_fecha(o, user_data[o], registros_tiempo,
                                       next_id, t, dbfalla)
    IN  /\ Selected(conversations, o, Texto(t)) = <<f, "mostrar_registros_fecha">>
        /\ Aplicar(o, f, res, FechaSesionTras(o, f, res))

MostrarRegistrosFecha(o) ==
    /\ TomaTexto(o) = <<"recuperar_registro_por_fecha", "mostrar_registros_fecha">>
    /\ \E t \in InputTexts, dbfalla \in BOOLEAN : MostrarRegistrosFechaCon(o, t, dbfalla)

ProcesarReporteCon(o, t, dbfalla) ==
    LET f == "generar_reporte"
        res == procesar_reporte(o, user_data[o], registros_tiempo, next_id, t, dbfalla)
    IN  /\ Selected(conversations, o, Texto(t)) = <<f, "procesar_reporte">>
        /\ Aplicar(o, f, res, FechaSesionTras(o, f, res))

ProcesarReporte(o) ==
    /\ TomaTexto(o) = <<"generar_reporte", "procesar_reporte">>
    /\ \E t \in InputTexts, dbfalla \in BOOLEAN : ProcesarReporteCon(o, t, dbfalla)

\* /cancelar reaches the fallback of flow f: the first ConversationHandler,
\* in the order of registration, that has a conversation for the owner.
CancelarEn(o, f) ==
    LET res == cancelar(o, user_data[o], registros_tiempo, next_id)
    IN  /\ Selected(conversations, o, Comando("cancelar")) = <<f, "cancelar">>
        /\ Aplicar(o, f, res, FechaSesionTras(o, f, res))

Cancelar(o) == \E f \in FlowNames : CancelarEn(o, f)

\* The timeout job of flow f fires CONVERSATION_TIMEOUT seconds after the
\* last update that flow handled: the TIMEOUT handler runs and the
\* conversation ends.
TimeoutDe(o, f) ==
    LET res == timeout(o, user_data[o], registros_tiempo, next_id)
    IN  /\ timeout_jobs[o][f]
        /\ Aplicar(o, f, res, FechaSesionTras(o, f, res))

Timeout(o) == \E f \in FlowNames : TimeoutDe(o, f)

\* /start reaches the plain CommandHandler; no conversation is touched.
StartCmd(o) ==
    LET res == start_cmd(o, user_data[o], registros_tiempo, next_id)
    IN  /\ Selected(conversations, o, Comando("start")) = <<"", "start_cmd">>
        /\ user_data' = [user_data EXCEPT ![o] = res.ud]
        /\ registros_tiempo' = res.tabla
        /\ next_id' = res.next
        /\ UNCHANGED <<conversations, timeout_jobs, fecha_sesion, llamada, retry,
                       listados>>
        /\ UNCHANGED otras

\* /ver_semana reaches the plain CommandHandler; it reads and sends.
VerSemanaCmdCon(o, dbfalla) ==
    LET res == ver_semana_cmd(o, user_data[o], registros_tiempo, next_id, dbfalla)
    IN  /\ Selected(conversations, o, Comando("ver_semana")) = <<"", "ver_semana_cmd">>
        /\ user_data' = [user_data EXCEPT ![o] = res.ud]
        /\ registros_tiempo' = res.tabla
        /\ next_id' = res.next
        /\ UNCHANGED <<conversations, timeout_jobs, fecha_sesion, llamada, retry,
                       listados>>
        /\ UNCHANGED otras

VerSemanaCmd(o) == \E dbfalla \in BOOLEAN : VerSemanaCmdCon(o, dbfalla)

\* An update no handler accepts: nothing runs.
SinHandlerCon(o, u) ==
    /\ Selected(conversations, o, u) = <<"", "">>
    /\ UNCHANGED vars

SinHandler(o) == \E u \in Updates : SinHandlerCon(o, u)

Next ==
    \E o \in Senders :
        \/ RegistrarDiaCmd(o)
        \/ ProcesarActividadesHoy(o)
        \/ RegistrarOtroDiaCmd(o)
        \/ RecibirFechaOtroDia(o)
        \/ ProcesarActividadesOtroDia(o)
        \/ EliminarRegistroCmd(o)
        \/ MostrarRegistrosEliminar(o)
        \/ ConfirmarEliminacion(o)
        \/ RecuperarRegistroCmd(o)
        \/ MostrarRegistrosFecha(o)
        \/ GenerarReporteCmd(o)
        \/ ProcesarReporte(o)
        \/ Cancelar(o)
        \/ Timeout(o)
        \/ StartCmd(o)
        \/ VerSemanaCmd(o)
        \/ SinHandler(o)

Spec == Init /\ [][Next]_vars

\* ------------------------------------------------------------------------
\* The today, query and delete flows on their own, with room for more rows
\* ------------------------------------------------------------------------

ProcesarActividadesHoyAmplioCon(o, ex, falla) ==
    LET f == "registrar_dia_actual"
        res == procesar_actividades_hoy(o, user_data[o], registros_tiempo,
                                        next_id, ex, falla)
    IN  /\ Selected(conversations, o, Texto(TxtActividades))
               = <<f, "procesar_actividades_hoy">>
        /\ next_id + Len(ex.actividades) <= PrimerId + MaxRecordsHoy
        /\ Aplicar(o, f, res, FechaSesionTras(o, f, res))

ProcesarActividadesHoyAmplio(o) ==
    /\ TomaTexto(o) = <<"registrar_dia_actual", "procesar_actividades_hoy">>
    /\ \E ex \in Extracciones :
           \E falla \in 0..Len(ex.actividades) :
               ProcesarActividadesHoyAmplioCon(o, ex, falla)

NextHoy ==
    \E o \in Senders :
        \/ RegistrarDiaCmd(o)
        \/ ProcesarActividadesHoyAmplio(o)
        \/ RecuperarRegistroCmd(o)
        \/ MostrarRegistrosFecha(o)
        \/ EliminarRegistroCmd(o)
        \/ MostrarRegistrosEliminar(o)
        \/ ConfirmarEliminacion(o)
        \/ Cancelar(o)
        \/ Timeout(o)

SpecHoy == Init /\ [][NextHoy]_vars

\* ------------------------------------------------------------------------
\* The webhook (app/main.py telegram_webhook): every POST is a task of its
\* own that awaits Application.process_update; a task runs until its next
\* await and other tasks run while it is suspended
\* ------------------------------------------------------------------------

\* The status telegram_webhook answers once the bot is initialised, whether
\* process_update returned or raised.
HTTP_OK == 200

\* One request: the owner and flow whose callback it runs, the session it
\* was dispatched in, where it is suspended (pc), what the callback has
\* returned so far (res), and whether it arrived after a callback of an
\* earlier request had raised.
Request(o, f, sesion, pc, ex, res) ==
    [o |-> o, f |-> f, sesion |-> sesion, pc |-> pc, ex |-> ex, res |-> res,
     tras_error |-> requests.hubo_error]

\* What handle_update keeps of the result of a callback that has returned
\* or raised: the state returned, the messages sent, how the insert ended.
Devuelto(res) ==
    [ret |-> res.ret, raised |-> res.raised, msgs |-> res.msgs, db |-> res.db]

Quitar(seq, i) == SubSeq(seq, 1, i - 1) \o SubSeq(seq, i + 1, Len(seq))

\* POST /webhook with /registrar_dia_actual: the entry callback runs and the
\* conversation begins.
WebhookEntrada(o) ==
    LET f == "registrar_dia_actual"
        res == registrar_dia_cmd(o, user_data[o], registros_tiempo, next_id)
    IN  /\ requests.sesion < MaxSesiones
        /\ Selected(conversations, o, Comando(f)) = <<f, EntryCallback(f)>>
        /\ conversations' = NuevoEstado(conversations, o, f, res)
        /\ timeout_jobs' = NuevoJob(timeout_jobs, o, f, res)
        /\ requests' = [requests EXCEPT !.sesion = @ + 1, !.inserts = Append(@, 0)]
        /\ UNCHANGED <<user_data, registros_tiempo, next_id, fecha_sesion,
                       llamada, retry, listados, estados_usuarios, prueba>>

\* POST /webhook with a text: check_update reads the state of the
\* conversation, the timeout job is removed and procesar_actividades_hoy
\* runs up to its await of the extraction.
WebhookTexto(o) ==
    LET f == "registrar_dia_actual"
    IN  /\ Len(requests.en_vuelo) < MaxRequests
        /\ Selected(conversations, o, Texto(TxtActividades))
               = <<f, "procesar_actividades_hoy">>
        /\ timeout_jobs' = [timeout_jobs EXCEPT ![o][f] = FALSE]
        /\ requests' = [requests EXCEPT !.en_vuelo =
                           Append(@, Request(o, f, requests.sesion, "extraccion",
                                             <<>>, <<>>))]
        /\ UNCHANGED <<conversations, user_data, registros_tiempo, next_id,
                       fecha_sesion, llamada, retry, listados, estados_usuarios,
                       prueba>>

\* The extraction of request i ends with ex: on a failure the callback
\* returns or raises, else it goes on to its await of the batch insert.
ExtraccionVuelveCon(i, ex) ==
    LET r == requests.en_vuelo[i]
        res == procesar_actividades_hoy(r.o, user_data[r.o], registros_tiempo,
                                        next_id, ex, 0)
    IN  /\ r.pc = "extraccion"
        /\ requests' = [requests EXCEPT !.en_vuelo[i] =
                           IF ex.ok THEN [r EXCEPT !.pc = "insert", !.ex = ex]
                           ELSE [r EXCEPT !.pc = "fin", !.res = Devuelto(res)]]
        /\ UNCHANGED <<conversations, timeout_jobs, user_data, registros_tiempo,
                       next_id, fecha_sesion, llamada, retry, listados,
                       estados_usuarios, prueba>>

ExtraccionVuelve ==
    \E i \in 1..Len(requests.en_vuelo), ex \in Extracciones :
        ExtraccionVuelveCon(i, ex)

\* The batch insert of request i runs against the table as it is now and the
\* callback returns.
InsertVuelveCon(i, falla) ==
    LET r == requests.en_vuelo[i]
        res == procesar_actividades_hoy(r.o, user_data[r.o], registros_tiempo,
                                        next_id, r.ex, falla)
    IN  /\ r.pc = "insert"
        /\ next_id + Len(r.ex.actividades) <= PrimerId + MaxRecordsHoy
        /\ registros_tiempo' = res.tabla
        /\ next_id' = res.next
        /\ requests' = [requests EXCEPT
                           !.en_vuelo[i] = [r EXCEPT !.pc = "fin", !.ex = <<>>,
                                                     !.res = Devuelto(res)],
                           !.inserts[r.sesion] = IF res.db = "ok" THEN @ + 1 ELSE @]
        /\ UNCHANGED <<conversations, timeout_jobs, user_data, fecha_sesion,
                       llamada, retry, listados, estados_usuarios, prueba>>

InsertVuelve ==
    \E i \in 1..Len(requests.en_vuelo) :
        /\ requests.en_vuelo[i].pc = "insert"
        /\ \E falla \in 0..Len(requests.en_vuelo[i].ex.actividades) :
               InsertVuelveCon(i, falla)

\* The callback of request i has returned or raised: handle_update records
\* the new state of the conversation and the webhook answers 200.
Termina(i) ==
    LET r == requests.en_vuelo[i]
    IN  /\ r.pc = "fin"
        /\ conversations' = NuevoEstado(conversations, r.o, r.f, r.res)
        /\ timeout_jobs' = NuevoJob(timeout_jobs, r.o, r.f, r.res)
        /\ requests' = [requests EXCEPT !.en_vuelo = Quitar(@, i),
                                        !.status = HTTP_OK,
                                        !.hubo_error = @ \/ r.res.raised]
        /\ UNCHANGED <<user_data, registros_tiempo, next_id, fecha_sesion,
                       llamada, retry, listados, estados_usuarios, prueba>>

WebhookTermina == \E i \in 1..Len(requests.en_vuelo) : Termina(i)

NextWebhook ==
    \/ \E o \in Senders : WebhookEntrada(o)
    \/ \E o \in Senders : WebhookTexto(o)
    \/ ExtraccionVuelve
    \/ InsertVuelve
    \/ WebhookTermina

SpecWebhook == Init /\ [][NextWebhook]_vars

\* ------------------------------------------------------------------------
\* Direct calls of the gateway (as tests/test_db_service.py calls it)
\* ------------------------------------------------------------------------

Actividades == {ActA, ActB}

\* The batches of 1..MaxBatch activities.
Lotes == UNION {[1..n -> Actividades] : n \in 1..MaxBatch}

Fechas == {fecha_colombia_hoy, OtraFecha}

DbCrearRegistrosCon(o, fecha, acts, falla) ==
    LET cr == crear_registros(registros_tiempo, next_id, o, fecha, acts, falla)
    IN  /\ next_id + Len(acts) <= PrimerId + MaxRecordsDb
        /\ registros_tiempo' = cr.tabla
        /\ next_id' = cr.next
        /\ llamada' = Llamada("crear_registros", o, fecha, acts, falla, 0, cr.ok,
                              cr.registros)
        /\ UNCHANGED <<conversations, timeout_jobs, user_data, fecha_sesion, retry,
                       listados>>
        /\ UNCHANGED otras

DbCrearRegistros ==
    \E o \in Owners, fecha \in Fechas, acts \in Lotes :
        \E falla \in 0..Len(acts) : DbCrearRegistrosCon(o, fecha, acts, falla)

\* registro_id ranges over the identifiers generated so far and one that
\* was never generated.
DbEliminarRegistroCon(registro_id, o) ==
    LET del == eliminar_registro(registros_tiempo, registro_id, o)
    IN  /\ registros_tiempo' = del.tabla
        /\ llamada' = Llamada("eliminar_registro", o, NoDate, <<>>, 0, registro_id,
                              del.deleted, <<>>)
        /\ UNCHANGED <<conversations, timeout_jobs, user_data, next_id, fecha_sesion,
                       retry, listados>>
        /\ UNCHANGED otras

DbEliminarRegistro ==
    \E registro_id \in 1..next_id, o \in Owners : DbEliminarRegistroCon(registro_id, o)

DbObtenerRegistrosPorFechaCon(o, fecha) ==
    /\ llamada' = Llamada("obtener_registros_por_fecha", o, fecha, <<>>, 0, 0, TRUE,
                          obtener_registros_por_fecha(registros_tiempo, o, fecha))
    /\ UNCHANGED <<conversations, timeout_jobs, user_data, registros_tiempo, next_id,
                   fecha_sesion, retry, listados>>
    /\ UNCHANGED otras

DbObtenerRegistrosPorFecha ==
    \E o \in Owners, fecha \in Fechas : DbObtenerRegistrosPorFechaCon(o, fecha)

NextDb ==
    \/ DbCrearRegistros
    \/ DbEliminarRegistro
    \/ DbObtenerRegistrosPorFecha

SpecDb == Init /\ [][NextDb]_vars

\* ------------------------------------------------------------------------
\* Direct calls of the extraction client (as tests/test_gemini_service.py
\* calls it), one attempt at a time
\* ------------------------------------------------------------------------

GeminiLlamar ==
    /\ retry.fase # "running"
    /\ retry' = Llamando
    /\ UNCHANGED <<conversations, timeout_jobs, user_data, registros_tiempo, next_id,
                   fecha_sesion, llamada, listados>>
    /\ UNCHANGED otras

GeminiIntentoCon(resp) ==
    /\ retry.fase = "running"
    /\ retry' = RetryStep(retry, resp)
    /\ UNCHANGED <<conversations, timeout_jobs, user_data, registros_tiempo, next_id,
                   fecha_sesion, llamada, listados>>
    /\ UNCHANGED otras

GeminiIntento == \E resp \in Respuestas : GeminiIntentoCon(resp)

NextGemini ==
    \/ GeminiLlamar
    \/ GeminiIntento

SpecGemini == Init /\ [][NextGemini]_vars

\* ------------------------------------------------------------------------
\* Properties of the conversation flows (under Spec)
\* ------------------------------------------------------------------------

\* The flows of owner o that wait for a reply.
Abiertos(conv, o) == {f \in FlowNames : conv[o][f] # NoConversation}

\* C1: after any sequence of events from one owner, at most one of the five
\* flows is in a waiting state for that owner.
C1_AlMasUnFlujoEnEspera ==
    \A o \in Owners : Cardinality(Abiertos(conversations, o)) <= 1

\* C2: /cancelar sent while a flow waits empties the owner's carried data
\* and leaves the owner with no flow waiting at all.
C2_CancelarDejaSinSesion ==
    [][\A o \in Senders :
          Cancelar(o) => /\ user_data'[o] = EmptyDict
                         /\ Abiertos(conversations', o) = {}]_vars

\* C3: every record the register-other-day flow inserts carries the date
\* the owner gave in the date step of the same session.
C3_FechaDeLaSesion ==
    [][\A o \in Senders :
          ProcesarActividadesOtroDia(o)
              => \A r \in registros_tiempo' \ registros_tiempo :
                     r.fecha = fecha_sesion[o]]_vars

\* C4: a flow command puts the owner in that command's first waiting state
\* with a fresh session: no other flow waits any more and no carried data
\* survives.
C4_ComandoEmpiezaSesionNueva ==
    [][\A o \in Senders, f \in FlowNames :
          Entrada(o, f) => /\ conversations'[o][f] = EntryState(f)
                           /\ Abiertos(conversations', o) = {f}
                           /\ user_data'[o] = EmptyDict]_vars

\* C5: whenever the only session of an owner ends, by any route, the owner's
\* carried data is empty.
C5_TerminalSinDatos ==
    [][\A o \in Senders, f \in FlowNames :
          /\ Abiertos(conversations, o) = {f}
          /\ Abiertos(conversations', o) = {}
          => user_data'[o] = EmptyDict]_vars

\* C6: the timeout of the only session of an owner ends it without a
\* message, and a flow command issued afterwards starts in its first waiting
\* state with nothing left over from the session that timed out.
C6_TimeoutNoDejaEstado ==
    [][\A o \in Senders, f \in FlowNames :
          Abiertos(conversations, o) = {f} /\ TimeoutDe(o, f)
              => /\ timeout(o, user_data[o], registros_tiempo, next_id).msgs = <<>>
                 /\ Abiertos(conversations', o) = {}
                 /\ \A g \in FlowNames :
                        LET res == EntryRes(o, g, user_data'[o], registros_tiempo',
                                            next_id')
                        IN  /\ Selected(conversations', o, Comando(g))
                                   = <<g, EntryCallback(g)>>
                            /\ res.ret = EntryState(g)
                            /\ res.ud = EmptyDict]_vars

\* The callback sent owner o a message that carries the text of the error
\* the extraction ended with.
LlevaDetalle(res, o, ex) ==
    \E i \in 1..Len(res.msgs) :
        /\ res.msgs[i].to = o
        /\ res.msgs[i].detalle = ex.detalle

\* C10: in both register flows, whenever the extraction fails, for whatever
\* reason, the user is sent a message that carries the error detail, no
\* record is inserted and the session ends.
C10_FalloDeExtraccionTermina ==
    [][\A o \in Senders, ex \in Extracciones :
          ~ex.ok =>
          /\ ProcesarActividadesHoyCon(o, ex, 0)
             => /\ LlevaDetalle(procesar_actividades_hoy(
                        o, user_data[o], registros_tiempo, next_id, ex, 0), o, ex)
                /\ registros_tiempo' = registros_tiempo
                /\ conversations'[o]["registrar_dia_actual"] = NoConversation
          /\ ProcesarActividadesOtroDiaCon(o, ex, 0)
             => /\ LlevaDetalle(procesar_actividades_otro_dia(
                        o, user_data[o], registros_tiempo, next_id, ex, 0), o, ex)
                /\ registros_tiempo' = registros_tiempo
                /\ conversations'[o]["registrar_otro_dia"] = NoConversation]_vars

\* A row of the store, as opposed to an extracted activity.
EsFila(r) == "usuario_telegram_id" \in DOMAIN r

\* Every message of res goes to owner o and lists no row of another owner.
SoloPropios(o, res) ==
    \A i \in 1..Len(res.msgs) :
        /\ res.msgs[i].to = o
        /\ \A j \in 1..Len(res.msgs[i].registros) :
               EsFila(res.msgs[i].registros[j])
                   => res.msgs[i].registros[j].usuario_telegram_id = o

DeOtros(tabla, o) == {r \in tabla : r.usuario_telegram_id # o}

\* The rows owner o carries between the steps of the delete flow.
Candidatos(o) == DictGet(user_data[o], "registros_eliminar", <<>>)

\* The result res of a callback for owner o shows o no row of another owner
\* and leaves the rows of the other owners as they are.
SinTocarAjenos(o, res) ==
    /\ SoloPropios(o, res)
    /\ DeOtros(res.tabla, o) = DeOtros(registros_tiempo, o)

\* C9: whatever events owner A has sent, the rows of owner B are the ones B
\* had at the start, and whatever event A sends next, the callback that
\* takes it leaves the rows of B as they are and lists no row of B in a
\* message or among the rows A may delete.
C9_SoloFilasDelRemitente ==
    \A o \in Senders :
        LET ud == user_data[o]
            tabla == registros_tiempo
            toma == TomaTexto(o)[2]
        IN  /\ DeOtros(registros_tiempo, o) = DeOtros(FilasIniciales, o)
            /\ \A i \in 1..Len(Candidatos(o)) :
                   Candidatos(o)[i].usuario_telegram_id = o
            /\ \A dbfalla \in BOOLEAN :
                   SinTocarAjenos(o, ver_semana_cmd(o, ud, tabla, next_id, dbfalla))
            /\ toma = "mostrar_registros_eliminar"
                   => \A t \in InputTexts, dbfalla \in BOOLEAN :
                          SinTocarAjenos(o, mostrar_registros_eliminar(
                                                o, ud, tabla, next_id, t, dbfalla))
            /\ toma = "confirmar_eliminacion"
                   => \A t \in InputTexts, dbfalla \in BOOLEAN :
                          SinTocarAjenos(o, confirmar_eliminacion(
                                                o, ud, tabla, next_id, t, dbfalla))
            /\ toma = "mostrar_registros_fecha"
                   => \A t \in InputTexts, dbfalla \in BOOLEAN :
                          SinTocarAjenos(o, mostrar_registros_fecha(
                                                o, ud, tabla, next_id, t, dbfalla))
            /\ toma = "procesar_reporte"
                   => \A t \in InputTexts, dbfalla \in BOOLEAN :
                          SinTocarAjenos(o, procesar_reporte(
                                                o, ud, tabla, next_id, t, dbfalla))
            /\ toma = "procesar_actividades_hoy"
                   => \A ex \in Extracciones :
                          SinTocarAjenos(o, procesar_actividades_hoy(
                                                o, ud, tabla, next_id, ex, 0))
            /\ toma = "procesar_actividades_otro_dia"
                   => \A ex \in Extracciones :
                          SinTocarAjenos(o, procesar_actividades_otro_dia(
                                                o, ud, tabla, next_id, ex, 0))

\* The sender chose, in the delete flow, a date on which another owner has
\* a row too, and was shown the candidates.
C9_Witness ==
    \E o \in Senders :
        /\ conversations[o]["eliminar_registro"] = ESPERANDO_SELECCION_ELIMINAR
        /\ Candidatos(o) # <<>>
        /\ \E r \in DeOtros(registros_tiempo, o) : r.fecha = Candidatos(o)[1].fecha

\* The callback sent owner o a failure notice that carries no detail.
AvisoGenerico(res, o) ==
    \E i \in 1..Len(res.msgs) :
        /\ res.msgs[i].to = o
        /\ res.msgs[i].tipo \in {"error_al_guardar", "error_inesperado"}
        /\ res.msgs[i].detalle = ""

\* C11: when a persistence operation fails inside a flow (batch insert,
\* lookup by date, lookup by month, delete), the user is sent a generic
\* failure notice and the session ends.
C11_FalloDePersistenciaTermina ==
    [][\A o \in Senders :
          /\ \A ex \in Extracciones, falla \in 1..MaxBatch :
                 /\ ex.ok /\ falla <= Len(ex.actividades)
                         /\ ProcesarActividadesHoyCon(o, ex, falla)
                    => /\ AvisoGenerico(procesar_actividades_hoy(
                               o, user_data[o], registros_tiempo, next_id, ex, falla), o)
                       /\ conversations'[o]["registrar_dia_actual"] = NoConversation
                 /\ ex.ok /\ falla <= Len(ex.actividades)
                         /\ ProcesarActividadesOtroDiaCon(o, ex, falla)
                    => /\ AvisoGenerico(procesar_actividades_otro_dia(
                               o, user_data[o], registros_tiempo, next_id, ex, falla), o)
                       /\ conversations'[o]["registrar_otro_dia"] = NoConversation
          /\ \A t \in InputTexts :
                 /\ MostrarRegistrosEliminarCon(o, t, TRUE)
                         /\ mostrar_registros_eliminar(o, user_data[o], registros_tiempo,
                                                       next_id, t, TRUE).db = "error"
                    => /\ AvisoGenerico(mostrar_registros_eliminar(
                               o, user_data[o], registros_tiempo, next_id, t, TRUE), o)
                       /\ conversations'[o]["eliminar_registro"] = NoConversation
                 /\ ConfirmarEliminacionCon(o, t, TRUE)
                         /\ confirmar_eliminacion(o, user_data[o], registros_tiempo,
                                                  next_id, t, TRUE).db = "error"
                    => /\ AvisoGenerico(confirmar_eliminacion(
                               o, user_data[o], registros_tiempo, next_id, t, TRUE), o)
                       /\ conversations'[o]["eliminar_registro"] = NoConversation
                 /\ MostrarRegistrosFechaCon(o, t, TRUE)
                         /\ mostrar_registros_fecha(o, user_data[o], registros_tiempo,
                                                    next_id, t, TRUE).db = "error"
                    => /\ AvisoGenerico(mostrar_registros_fecha(
                               o, user_data[o], registros_tiempo, next_id, t, TRUE), o)
                       /\ conversations'[o]["recuperar_registro_por_fecha"] = NoConversation
                 /\ ProcesarReporteCon(o, t, TRUE)
                         /\ procesar_reporte(o, user_data[o], registros_tiempo,
                                             next_id, t, TRUE).db = "error"
                    => /\ AvisoGenerico(procesar_reporte(
                               o, user_data[o], registros_tiempo, next_id, t, TRUE), o)
                       /\ conversations'[o]["generar_reporte"] = NoConversation]_vars

\* C15: in the selection state of the delete flow, a reply that is not an
\* integer or lies outside 1..n, n the number of listed records, deletes
\* nothing, keeps the session in the selection state with the same
\* candidates, and is answered with a re-prompt that states the range 1..n.
C15_SeleccionInvalidaRepregunta ==
    \A o \in Senders :
        /\ conversations[o]["eliminar_registro"] = ESPERANDO_SELECCION_ELIMINAR
        /\ Candidatos(o) # <<>>
        => \A t \in InputTexts :
               LET n == Len(Candidatos(o))
                   k == ParseInt(t)
                   res == confirmar_eliminacion(o, user_data[o], registros_tiempo,
                                                next_id, t, FALSE)
               IN  ~k[1] \/ k[2] < 1 \/ k[2] > n
                   => /\ res.tabla = registros_tiempo
                      /\ ~res.raised
                      /\ res.ret = ESPERANDO_SELECCION_ELIMINAR
                      /\ DictGet(res.ud, "registros_eliminar", <<>>) = Candidatos(o)
                      /\ \E i \in 1..Len(res.msgs) : res.msgs[i].hasta = n

\* C16: in the delete flow with n records displayed, a reply k with
\* 1 <= k <= n removes exactly the k-th displayed record and leaves every
\* other record in the store.
C16_EliminaElElegido ==
    \A o \in Senders :
        conversations[o]["eliminar_registro"] = ESPERANDO_SELECCION_ELIMINAR
        => \A t \in InputTexts :
               LET k == ParseInt(t)
                   res == confirmar_eliminacion(o, user_data[o], registros_tiempo,
                                                next_id, t, FALSE)
               IN  k[1] /\ 1 <= k[2] /\ k[2] <= Len(listados[o])
                   => /\ listados[o][k[2]] \in registros_tiempo
                      /\ res.tabla = registros_tiempo \ {listados[o][k[2]]}

\* The parses of every reply the model sends: as a date, as a month and
\* year, as a whole number.
FechaDe == [t \in InputTexts |-> parsear_fecha(t)]

MesAnioDe == [t \in InputTexts |-> MesAnio(t)]

EnteroDe == [t \in InputTexts |-> ParseInt(Strip(t))]

\* The waiting states whose callback validates the reply.
EstadosQueValidan ==
    {ESPERANDO_FECHA, ESPERANDO_FECHA_ELIMINAR, ESPERANDO_FECHA_CONSULTA,
     ESPERANDO_MES_REPORTE, ESPERANDO_SELECCION_ELIMINAR}

\* The reply t is one the waiting state st of owner o rejects: no date, no
\* month of a year from 2020 on, no number of a displayed record.
RespuestaInvalida(o, st, t) ==
    CASE st = ESPERANDO_MES_REPORTE -> ~MesAnioDe[t][1]
      [] st = ESPERANDO_SELECCION_ELIMINAR ->
            ~EnteroDe[t][1] \/ EnteroDe[t][2] < 1 \/ EnteroDe[t][2] > Len(listados[o])
      [] OTHER -> FechaDe[t] = NoDate

\* The result of the callback of the validating state st on the reply t.
ResDeEstado(o, st, t, dbfalla) ==
    LET ud == user_data[o]
        tabla == registros_tiempo
    IN  CASE st = ESPERANDO_FECHA -> recibir_fecha_otro_dia(o, ud, tabla, next_id, t)
          [] st = ESPERANDO_FECHA_ELIMINAR ->
                mostrar_registros_eliminar(o, ud, tabla, next_id, t, dbfalla)
          [] st = ESPERANDO_SELECCION_ELIMINAR ->
                confirmar_eliminacion(o, ud, tabla, next_id, t, dbfalla)
          [] st = ESPERANDO_FECHA_CONSULTA ->
                mostrar_registros_fecha(o, ud, tabla, next_id, t, dbfalla)
          [] st = ESPERANDO_MES_REPORTE ->
                procesar_reporte(o, ud, tabla, next_id, t, dbfalla)

\* The result is a re-prompt of the state st and nothing else: the same
\* state, the same data, the same rows, no extraction and no query.
SoloRepregunta(o, st, res) ==
    /\ res.ret = st
    /\ ~res.raised
    /\ res.ud = user_data[o]
    /\ res.tabla = registros_tiempo
    /\ res.next = next_id
    /\ res.extraccion = ""
    /\ res.db = ""
    /\ Len(res.msgs) = 1
    /\ res.msgs[1].tipo \in {"fecha_invalida", "formato_invalido",
                             "solo_el_numero", "numero_invalido"}

FormaMesAnio(t) ==
    LET partes == Split(Strip(t), "/")
    IN  /\ Len(partes) = 2
        /\ ParseInt(partes[1])[1]
        /\ ParseInt(partes[2])[1]
        /\ 1 <= ParseInt(partes[1])[2]
        /\ ParseInt(partes[1])[2] <= 12
        /\ ParseInt(partes[2])[2] >= ANIO_MINIMO

\* C18: in the month step of the report flow the callback accepts a reply
\* exactly when it has the form MM/YYYY with a month from 1 to 12 and a
\* year from 2020 on; every other reply, one with further parts after a
\* second "/" included, gets the re-prompt, keeps the month step and
\* queries no rows.
C18_MesAceptadoSiiFormaMMYYYY ==
    \A o \in Senders, t \in InputTexts, dbfalla \in BOOLEAN :
        conversations[o]["generar_reporte"] = ESPERANDO_MES_REPORTE
        => LET res == procesar_reporte(o, user_data[o], registros_tiempo,
                                       next_id, t, dbfalla)
           IN  IF FormaMesAnio(t)
               THEN res.ret # ESPERANDO_MES_REPORTE /\ res.db # ""
               ELSE /\ res.ret = ESPERANDO_MES_REPORTE
                    /\ res.db = ""
                    /\ res.msgs = <<Msg(o, "formato_invalido", "", NoDate, <<>>)>>

\* The rows of owner o in the month the reply t names.
PropiosDelMes(o, t) ==
    {r \in registros_tiempo : /\ r.usuario_telegram_id = o
                              /\ r.fecha[1] = MesAnioDe[t][2]
                              /\ r.fecha[2] = MesAnioDe[t][3]}

\* The messages of a result that carry the report file.
Documentos(res) == {i \in 1..Len(res.msgs) : res.msgs[i].tipo = "documento"}

\* C19: in the month step of the report flow, a valid month in which the
\* owner has no row is answered with the no-records notice and no file, and
\* the session ends; a file is sent only when the owner has at least one row
\* in the month, and it holds exactly those rows.
C19_ReporteSoloConRegistros ==
    \A o \in Senders :
        conversations[o]["generar_reporte"] = ESPERANDO_MES_REPORTE
        => \A t \in InputTexts :
               MesAnioDe[t][1]
               => \A dbfalla \in BOOLEAN :
                      LET res == procesar_reporte(o, user_data[o], registros_tiempo,
                                                  next_id, t, dbfalla)
                          propios == PropiosDelMes(o, t)
                      IN  /\ propios = {} /\ ~dbfalla
                             => /\ res.ret = END
                                /\ ~res.raised
                                /\ Documentos(res) = {}
                                /\ res.msgs[Len(res.msgs)].tipo = "no_hay_registros_mes"
                          /\ \A i \in Documentos(res) :
                                 /\ propios # {}
                                 /\ Range(res.msgs[i].registros) = propios
                          /\ res.tabla = registros_tiempo

\* The report flow waits for the month, another owner has rows in February
\* 2026 and the sender has none: the reply 02/2026 gets the notice.
C19_Witness ==
    \E o \in Senders :
        /\ conversations[o]["generar_reporte"] = ESPERANDO_MES_REPORTE
        /\ TomaTexto(o)[1] = "generar_reporte"
        /\ PropiosDelMes(o, TxtMes) = {}
        /\ \E r \in registros_tiempo : r.fecha[1] = 2026 /\ r.fecha[2] = 2
        /\ procesar_reporte(o, user_data[o], registros_tiempo, next_id, TxtMes,
                            FALSE).ret = END

\* C23: whatever events the flows have handled, every row of the table has
\* hours above 0 and at most 24, one of the three categories, a description
\* and a project that are not empty, and an identifier no other row has.
C23_FilasValidas ==
    \A r \in registros_tiempo :
        /\ r.horas_estimadas > 0
        /\ r.horas_estimadas <= 2400
        /\ r.categoria \in {"proyectoFacturable", "proyectoNoFacturable",
                             "otrosNoFacturable"}
        /\ r.descripcion # ""
        /\ r.proyecto # ""
        /\ \A q \in registros_tiempo : q.id = r.id => q = r

\* The sender has a row that a register flow created.
C23_Witness ==
    \E r \in registros_tiempo :
        r.usuario_telegram_id \in Senders /\ r.id >= PrimerId /\ next_id > r.id

\* ------------------------------------------------------------------------
\* Properties of the today flow and the query flow (under SpecHoy)
\* ------------------------------------------------------------------------

\* Row r holds activity a of owner o on the date fecha.
FilaDe(r, o, fecha, a) ==
    /\ r.usuario_telegram_id = o
    /\ r.fecha = fecha
    /\ r.descripcion = a.descripcion
    /\ r.proyecto = a.proyecto
    /\ r.categoria = a.categoria
    /\ r.horas_estimadas = a.horas_estimadas

C21_UnInsertPorSesion ==
    \A n \in 1..Len(requests.inserts) : requests.inserts[n] <= 1

\* C22: when the callback of a request has raised, the request still ends:
\* the owner has been sent the unexpected-error notice as the last message,
\* the webhook answers 200, the conversations and the rows are as they were,
\* and the request no longer occupies the webhook, so that later events are
\* dispatched as before.
C22_ExcepcionNoDetiene ==
    [][\A i \in 1..Len(requests.en_vuelo) :
          Termina(i) /\ requests.en_vuelo[i].res.raised
          => LET r == requests.en_vuelo[i]
                 ultimo == r.res.msgs[Len(r.res.msgs)]
             IN  /\ ultimo.tipo = "error_inesperado"
                 /\ ultimo.to = r.o
                 /\ ultimo.detalle = ""
                 /\ requests'.status = HTTP_OK
                 /\ Len(requests'.en_vuelo) = Len(requests.en_vuelo) - 1
                 /\ conversations' = conversations
                 /\ registros_tiempo' = registros_tiempo
                 /\ user_data' = user_data]_vars

\* A callback has raised and its request was answered; a reply that arrived
\* afterwards has been extracted and inserted.
C22_Witness ==
    /\ requests.hubo_error
    /\ requests.status = HTTP_OK
    /\ \E i \in 1..Len(requests.en_vuelo) :
           /\ requests.en_vuelo[i].tras_error
           /\ requests.en_vuelo[i].pc = "fin"
           /\ requests.en_vuelo[i].res.db = "ok"

\* ------------------------------------------------------------------------
\* Properties of the gateway (under SpecDb)
\* ------------------------------------------------------------------------

\* C7: crear_registros is all-or-nothing: when the Nth of M inserts fails,
\* no row of the batch is in the store afterwards; when none fails, the M
\* rows are in the store, one per activity, and they are what it returns.
C7_CrearRegistrosTodoONada ==
    [][llamada'.op = "crear_registros" =>
          LET c == llamada'
              M == Len(c.actividades)
              nuevas == registros_tiempo' \ registros_tiempo
          IN  /\ registros_tiempo \subseteq registros_tiempo'
              /\ c.ok = (c.falla = 0)
              /\ ~c.ok => nuevas = {} /\ c.registros = <<>>
              /\ c.ok => /\ Cardinality(nuevas) = M
                         /\ Len(c.registros) = M
                         /\ Range(c.registros) = nuevas
                         /\ \A i \in 1..M :
                                /\ c.registros[i].usuario_telegram_id = c.telegram_id
                                /\ c.registros[i].fecha = c.fecha
                                /\ c.registros[i].descripcion = c.actividades[i].descripcion
                                /\ c.registros[i].proyecto = c.actividades[i].proyecto]_vars

\* The second insert of a batch of two failed, in a store that holds rows
\* of earlier batches.
C7_Witness ==
    /\ llamada.op = "crear_registros"
    /\ llamada.falla >= 2
    /\ ~llamada.ok
    /\ registros_tiempo # FilasIniciales

\* C8: eliminar_registro removes a row and returns true only when a row
\* with the given identifier belongs to the given owner; otherwise it
\* returns false and the store is unchanged.
C8_EliminarSoloConOwner ==
    [][llamada'.op = "eliminar_registro" =>
          LET suyas == {r \in registros_tiempo :
                            /\ r.id = llamada'.registro_id
                            /\ r.usuario_telegram_id = llamada'.telegram_id}
          IN  /\ llamada'.ok = (suyas # {})
              /\ registros_tiempo' = registros_tiempo \ suyas
              /\ Cardinality(suyas) <= 1
              /\ ~llamada'.ok => registros_tiempo' = registros_tiempo]_vars

\* A delete named a row of another owner; it answered false and the row is
\* still in the store.
C8_Witness ==
    /\ llamada.op = "eliminar_registro"
    /\ ~llamada.ok
    /\ \E r \in registros_tiempo :
           /\ r.id = llamada.registro_id
           /\ r.usuario_telegram_id # llamada.telegram_id

\* ------------------------------------------------------------------------
\* Properties of the extraction client (under SpecGemini)
\* ------------------------------------------------------------------------

\* What the last attempt made ended with.
UltimoIntento == Intento(retry.respuestas[Len(retry.respuestas)])

\* The responses of the attempts made, repeated up to the last attempt the
\* decorator allows.
Completadas ==
    [i \in 1..STOP_AFTER_ATTEMPT |->
        retry.respuestas[Min2(i, Len(retry.respuestas))]]

\* C12: one call of procesar_actividades invokes the model at most 3 times;
\* every attempt before the last one made failed and was retried, whatever
\* the failure; the call returns at the first attempt that succeeds, and
\* after a third failure raises the error of that attempt as it is.
C12_TresIntentosComoMaximo ==
    LET n == Len(retry.respuestas)
    IN  /\ n <= 3
        /\ \A i \in 1..(n - 1) : ~Intento(retry.respuestas[i]).ok
        /\ retry.fase = "running" => n < 3
        /\ retry.fase = "returned"
               => /\ UltimoIntento.ok
                  /\ retry.actividades = UltimoIntento.actividades
        /\ retry.fase = "raised"
               => /\ n = 3
                  /\ ~UltimoIntento.ok
                  /\ retry.error = UltimoIntento.error
                  /\ retry.detalle = UltimoIntento.detalle
        /\ retry.fase \in {"returned", "raised"}
               => LET ex == procesar_actividades(Completadas)
                  IN  /\ ex.ok = (retry.fase = "returned")
                      /\ ex.intentos = n
                      /\ ex.error = retry.error
                      /\ ex.detalle = retry.detalle
                      /\ ex.actividades = retry.actividades

\* The call raised after three attempts that failed in three ways: the call
\* of the model, the JSON parse and the schema validation.
C12_Witness ==
    /\ retry.fase = "raised"
    /\ retry.respuestas[1].tipo = "api_error"
    /\ retry.respuestas[2].tipo = "bad_json"
    /\ retry.respuestas[3].tipo = "json"
    /\ retry.detalle = "Response validation failed"

\* C13: the wait before attempt 2 is 2 seconds and the wait before attempt
\* 3 is 4 seconds.
C13_EsperaDobla ==
    /\ Len(retry.esperas) >= 1 => retry.esperas[1] = 2
    /\ Len(retry.esperas) >= 2 => retry.esperas[2] = 4

\* C14: every call of the extraction client ends by returning a non-empty
\* list of activities that satisfy the schema, or by raising
\* GeminiProcessingError with a cause; never with another error type.
C14_ListaOErrorClasificado ==
    /\ retry.fase = "returned"
           => /\ retry.actividades # <<>>
              /\ \A i \in 1..Len(retry.actividades) :
                     ActividadGemini(retry.actividades[i])
    /\ retry.fase = "raised"
           => /\ retry.error = "GeminiProcessingError"
              /\ retry.detalle # ""

\* The payload is one the validation has to reject: no activity, or an
\* activity with a category outside the set or with hours that are not
\* above 0 and at most 24.
PayloadInvalido(actividades) ==
    \/ actividades = <<>>
    \/ \E i \in 1..Len(actividades) :
           \/ actividades[i].categoria \notin {"proyectoFacturable",
                                                "proyectoNoFacturable",
                                                "otrosNoFacturable"}
           \/ actividades[i].horas_estimadas <= 0
           \/ actividades[i].horas_estimadas > 2400

\* C24: an attempt whose JSON payload has no activity, or an activity with
\* a category outside the set or hours not in (0, 24], fails with
\* GeminiProcessingError "validation failed"; the call never returns on such
\* a payload, and when it is the payload of the last attempt allowed the
\* call raises that error.
C24_ValidacionRechaza ==
    LET n == Len(retry.respuestas)
        invalida(i) == /\ retry.respuestas[i].tipo = "json"
                       /\ PayloadInvalido(retry.respuestas[i].actividades)
    IN  /\ \A i \in 1..n :
               invalida(i)
               => /\ ~Intento(retry.respuestas[i]).ok
                  /\ Intento(retry.respuestas[i]).error = "GeminiProcessingError"
                  /\ Intento(retry.respuestas[i]).detalle = "Response validation failed"
        /\ n >= 1 /\ invalida(n)
               => /\ retry.fase # "returned"
                  /\ n = STOP_AFTER_ATTEMPT
                         => /\ retry.fase = "raised"
                            /\ retry.error = "GeminiProcessingError"
                            /\ retry.detalle = "Response validation failed"
        /\ retry.fase = "returned" => ~PayloadInvalido(retry.actividades)

\* The call raised on a third payload with a valid activity and one of 0
\* hours, after a payload with no activity and one with 24.01 hours.
C24_Witness ==
    /\ retry.fase = "raised"
    /\ retry.respuestas[1] = [tipo |-> "json", actividades |-> <<>>]
    /\ retry.respuestas[2] = [tipo |-> "json", actividades |-> <<ActExceso>>]
    /\ retry.respuestas[3] = [tipo |-> "json", actividades |-> <<ActA, ActCero>>]
    /\ retry.error = "GeminiProcessingError"

\* ------------------------------------------------------------------------
\* _extract_json (app/services/gemini_service.py)
\* ------------------------------------------------------------------------

\* The backquote character, as an element of a text.
Backquote == "backquote"

\* The positions of text where a fence, three backquotes, starts.
Fences(text) ==
    {i \in 1..(Len(text) - 2) :
        /\ text[i] = Backquote
        /\ text[i + 1] = Backquote
        /\ text[i + 2] = Backquote}

\* The pattern fence(?:json)?\s*\n? after a fence at i: the optional tag
\* json and then all the whitespace are consumed; the group starts at the
\* position returned.
TrasTag(text, i) ==
    IF i + 6 <= Len(text) /\ SubSeq(text, i + 3, i + 6) = <<"j", "s", "o", "n">>
    THEN i + 7 ELSE i + 3

RECURSIVE SaltarEspacios(_, _)
SaltarEspacios(text, k) ==
    IF k <= Len(text) /\ IsSpace(text[k]) THEN SaltarEspacios(text, k + 1)
    ELSE k

InicioGrupo(text, i) == SaltarEspacios(text, TrasTag(text, i))

\* The fences that can close a block opened at i: (.*?)\n?\s*fence ends the
\* lazy group at the first of them.
Cierres(text, i) == {j \in Fences(text) : j >= InicioGrupo(text, i)}

\* re.search: the leftmost fence that has a closing fence.
Aperturas(text) == {i \in Fences(text) : Cierres(text, i) # {}}

Minimo(S) == CHOOSE x \in S : \A y \in S : x <= y

Maximo(S) == CHOOSE x \in S : \A y \in S : x >= y

\* str.find("{") and str.rfind("}") as sets of positions.
Posiciones(text, c) == {i \in 1..Len(text) : text[i] = c}

\* The substring from the first "{" to the last "}", else the text itself.
EntreLlaves(text) ==
    LET abre == Posiciones(text, "{")
        cierra == Posiciones(text, "}")
    IN  IF abre # {} /\ cierra # {} /\ Maximo(cierra) > Minimo(abre)
        THEN SubSeq(text, Minimo(abre), Maximo(cierra))
        ELSE text

extract_json_sin_llaves(text) ==
    IF Aperturas(text) # {}
    THEN LET i == Minimo(Aperturas(text))
         IN  Strip(SubSeq(text, InicioGrupo(text, i),
                          Minimo(Cierres(text, i)) - 1))
    ELSE text

\* _extract_json: the stripped content of the first fenced block, else the
\* substring between the braces, else the text.
extract_json(text) ==
    IF Aperturas(text) # {}
    THEN LET i == Minimo(Aperturas(text))
         IN  Strip(SubSeq(text, InicioGrupo(text, i),
                          Minimo(Cierres(text, i)) - 1))
    ELSE EntreLlaves(text)

\* ------------------------------------------------------------------------
\* Direct calls of the pure functions of app/utils.py
\* ------------------------------------------------------------------------

\* date.strftime with %d and %m (two digits) and with %Y (four digits).
Dos(n) == <<Digits[(n \div 10) + 1], Digits[(n % 10) + 1]>>

Cuatro(n) == Dos(n \div 100) \o Dos(n % 100)

\* The three spellings of a day: YYYY-MM-DD, DD/MM/YYYY and DD-MM-YYYY.
Formas == {"iso", "slash", "dash"}

Escribir(f, forma) ==
    IF forma = "iso"
    THEN Cuatro(f[1]) \o <<"-">> \o Dos(f[2]) \o <<"-">> \o Dos(f[3])
    ELSE IF forma = "slash"
    THEN Dos(f[3]) \o <<"/">> \o Dos(f[2]) \o <<"/">> \o Cuatro(f[1])
    ELSE Dos(f[3]) \o <<"-">> \o Dos(f[2]) \o <<"-">> \o Cuatro(f[1])

\* A year, a month and a day that name a day of the calendar.
EsFecha(f) == f[1] >= 1 /\ f[2] \in 1..12 /\ f[3] \in 1..DaysInMonth(f[1], f[2])

\* The texts handed to parsear_fecha: days of the calendar and days no
\* month has, in the three spellings, bare and with whitespace around them,
\* and texts that are malformed, partial or empty.
AniosTexto == {2024, 2026}

MesesTexto == {1, 2, 4, 12}

DiasTexto == {1, 17, 29, 30, 31}

TernasTexto == AniosTexto \X MesesTexto \X DiasTexto

Rellenos == {<<>>, <<" ">>, <<"\t", " ">>, <<"\n">>}

TextosDeDias ==
    {pre \o Escribir(f, forma) \o post :
        f \in TernasTexto, forma \in Formas, pre \in Rellenos,
        post \in Rellenos}

TextosMalos ==
    {<<>>,
     <<" ", " ", " ">>,
     <<"h", "o", "y">>,
     <<"2", "0", "2", "6", "-", "0", "2">>,
     <<"1", "7", "/", "0", "2", "/", "2", "6">>,
     <<"2", "0", "2", "6", "/", "0", "2", "/", "1", "7">>,
     <<"1", "7", "-", "0", "2", "/", "2", "0", "2", "6">>,
     <<"2", "0", "2", "6", "-", "0", "2", "-", "1", "7", "x">>,
     <<"2", "0", "2", "6", "-", "1", "3", "-", "0", "1">>,
     <<"1", "7", ".", "0", "2", ".", "2", "0", "2", "6">>,
     <<"2", "0", "2", "6", "-", "-", "1", "7">>,
     <<"1", "7", "/", "0", "2", "/", "2", "0", "2", "6", "/">>,
     <<"1", "7", " ", "/", "0", "2", "/", "2", "0", "2", "6">>,
     <<"0", "0", "0", "0", "-", "0", "1", "-", "0", "1">>,
     <<"1", "7", "/", "2", "0", "2", "6">>}

\* The dates handed to inicio_semana and fin_semana: whole years at both
\* ends of the range of datetime.date and around the present.
AniosSemana == {1, 2024, 2025, 9999}

FechasSemana == {f \in AniosSemana \X (1..12) \X (1..31) : EsFecha(f)}

\* The texts handed to _extract_json: JSON objects raw, inside a fenced
\* block with the tag json or without a tag, and with prose around them;
\* a fenced block after prose that holds braces; a fence that is never
\* closed; texts with no object in them.
Fence == <<Backquote, Backquote, Backquote>>

TagJson == <<"j", "s", "o", "n">>

Payloads ==
    {<<"{", "\"", "a", "\"", ":", " ", "[", "1", "]", "}">>,
     <<"{", "\"", "a", "\"", ":", " ", "{", "\"", "b", "\"", ":", " ", "2", "}", "}">>,
     <<"{", "\n", " ", "\"", "a", "\"", ":", " ", "1", "\n", "}">>}

Envolturas == {"raw", "json", "json_pegado", "plain", "plain_espacios"}

Envolver(p, w) ==
    CASE w = "raw" -> p
      [] w = "json" -> Fence \o TagJson \o <<"\n">> \o p \o <<"\n">> \o Fence
      [] w = "json_pegado" -> Fence \o TagJson \o p \o Fence
      [] w = "plain" -> Fence \o <<"\n">> \o p \o <<"\n">> \o Fence
      [] w = "plain_espacios" -> Fence \o <<" ", "\n">> \o p \o <<" ">> \o Fence

ProsasAntes ==
    {<<>>,
     <<"H", "e", "r", "e", " ", "i", "s", " ", "t", "h", "e", " ", "r", "e", "s", "u", "l", "t", ":", "\n">>,
     <<"N", "o", "t", "a", " ", "[", "1", "]", ":", " ">>}

ProsasDespues ==
    {<<>>,
     <<"\n", "D", "o", "n", "e", "!">>,
     <<" ", "o", "k", ".", "\n">>}

ProsaConLlaves == <<"x", " ", "{", "y", "}", " ">>

TextosSinJson ==
    {<<"s", "i", "n", " ", "d", "a", "t", "o", "s">>,
     <<"}", " ", "x", " ", "{">>,
     <<>>}

TextosEnvueltos ==
    {pre \o Envolver(p, w) \o post :
        p \in Payloads, w \in Envolturas, pre \in ProsasAntes,
        post \in ProsasDespues}

TextosFencePrimero ==
    {ProsaConLlaves \o Envolver(p, w) \o post :
        p \in Payloads, w \in Envolturas \ {"raw"}, post \in ProsasDespues}

TextosFenceAbierto == {Fence \o TagJson \o <<"\n">> \o p : p \in Payloads}

PruebasJson ==
    {[op |-> "extract_json", arg |-> t, res |-> <<>>, hecho |-> FALSE] :
        t \in TextosEnvueltos \cup TextosFencePrimero
                  \cup TextosFenceAbierto \cup TextosSinJson}

PruebasUtils ==
    {[op |-> "parsear_fecha", arg |-> t, res |-> <<>>, hecho |-> FALSE] :
        t \in TextosDeDias \cup TextosMalos}
    \cup {[op |-> "semana", arg |-> f, res |-> <<>>, hecho |-> FALSE] :
        f \in FechasSemana}

InitUtils == \E p \in PruebasUtils \cup PruebasJson : InitCon(p)

sin_prueba ==
    <<conversations, timeout_jobs, user_data, registros_tiempo, next_id,
      fecha_sesion, llamada, retry, listados, requests, estados_usuarios>>

\* A call parsear_fecha(texto).
ParsearFecha ==
    /\ prueba.op = "parsear_fecha"
    /\ ~prueba.hecho
    /\ prueba' = [prueba EXCEPT !.res = parsear_fecha(prueba.arg),
                                !.hecho = TRUE]
    /\ UNCHANGED sin_prueba

\* The calls inicio_semana(fecha) and fin_semana(fecha).
Semana ==
    /\ prueba.op = "semana"
    /\ ~prueba.hecho
    /\ prueba' = [prueba EXCEPT
                     !.res = <<inicio_semana(prueba.arg),
                               fin_semana(prueba.arg)>>,
                     !.hecho = TRUE]
    /\ UNCHANGED sin_prueba

\* A call _extract_json(text).
ExtractJson ==
    /\ prueba.op = "extract_json"
    /\ ~prueba.hecho
    /\ prueba' = [prueba EXCEPT !.res = extract_json(prueba.arg),
                                !.hecho = TRUE]
    /\ UNCHANGED sin_prueba

NextUtils == ParsearFecha \/ Semana \/ ExtractJson

SpecUtils == InitUtils /\ [][NextUtils]_vars

\* C25: parsear_fecha trims the whitespace around the text and returns the
\* first of YYYY-MM-DD, DD/MM/YYYY and DD-MM-YYYY that parses: the three
\* spellings of one day of the calendar give that same date, with or
\* without whitespace around them; no text parses under two formats with
\* different results; a day no month has, and a malformed, partial or empty
\* text, give None.
C25_ParsearFecha ==
    (prueba.op = "parsear_fecha" /\ prueba.hecho) =>
        LET t == Strip(prueba.arg)
            aciertos == {Strptime(t, "-", TRUE), Strptime(t, "/", FALSE),
                         Strptime(t, "-", FALSE)} \ {NoDate}
        IN  /\ Cardinality(aciertos) <= 1
            /\ prueba.res # NoDate => prueba.res \in aciertos
            /\ \A f \in TernasTexto, forma \in Formas :
                   \A pre \in Rellenos, post \in Rellenos :
                       prueba.arg = pre \o Escribir(f, forma) \o post
                           => prueba.res = IF EsFecha(f) THEN f ELSE NoDate
            /\ prueba.arg \in TextosMalos => prueba.res = NoDate

\* C25 witness: the slash spelling of 29 February 2024 with whitespace on
\* both sides has been parsed to that day.
C25_Witness ==
    /\ prueba.op = "parsear_fecha"
    /\ prueba.hecho
    /\ prueba.arg = <<" ">> \o Escribir(<<2024, 2, 29>>, "slash") \o <<"\n">>
    /\ prueba.res = <<2024, 2, 29>>

\* The last Monday of the range of datetime.date, 9999-12-27: the Sunday
\* of its week, 10000-01-02, is past date.max.
UltimoLunes == <<9999, 12, 27>>

\* C26 as stated: for every date d, inicio_semana(d) is a Monday on or
\* before d, fin_semana(d) is a Sunday on or after d, the two are exactly
\* six days apart, a Monday is its own inicio_semana and a Sunday its own
\* fin_semana.
C26_SemanaDeTodaFecha ==
    (prueba.op = "semana" /\ prueba.hecho) =>
        LET d == prueba.arg
            lunes == prueba.res[1]
            domingo == prueba.res[2]
        IN  /\ lunes # OverflowError
            /\ domingo # OverflowError
            /\ Weekday(lunes) = 0
            /\ ~DateLess(d, lunes)
            /\ Weekday(domingo) = 6
            /\ ~DateLess(domingo, d)
            /\ ToOrdinal(domingo) - ToOrdinal(lunes) = 6
            /\ Weekday(d) = 0 => lunes = d
            /\ Weekday(d) = 6 => domingo = d

\* C26 as amended: the same for every date d before 9999-12-27; for the
\* last five days of the range inicio_semana(d) is still the Monday on or
\* before d, and fin_semana(d) raises OverflowError.
C26_SemanaHastaUltimoDomingo ==
    (prueba.op = "semana" /\ prueba.hecho) =>
        LET d == prueba.arg
            lunes == prueba.res[1]
            domingo == prueba.res[2]
        IN  /\ lunes # OverflowError
            /\ Weekday(lunes) = 0
            /\ ~DateLess(d, lunes)
            /\ Weekday(d) = 0 => lunes = d
            /\ IF DateLess(d, UltimoLunes)
               THEN /\ domingo # OverflowError
                    /\ Weekday(domingo) = 6
                    /\ ~DateLess(domingo, d)
                    /\ ToOrdinal(domingo) - ToOrdinal(lunes) = 6
                    /\ Weekday(d) = 6 => domingo = d
               ELSE /\ domingo = OverflowError
                    /\ lunes = UltimoLunes

\* C26 witness: the week of Wednesday 1 January 2025 runs from Monday
\* 30 December 2024 to Sunday 5 January 2025.
C26_Witness ==
    /\ prueba.op = "semana"
    /\ prueba.hecho
    /\ prueba.arg = <<2025, 1, 1>>
    /\ prueba.res = << <<2024, 12, 30>>, <<2025, 1, 5>> >>

PyNone == [tipo |-> "None", items |-> {}]

PyDict(items) == [tipo |-> "dict", items |-> items]

\* json.dumps(d): a str, the JSON text of d.
json_dumps(d) == [tipo |-> "str", items |-> d.items]

\* bool(v) as the conditional expression of guardar_estado takes it: None
\* and the empty dict are false.
Truthy(v) == v.tipo = "dict" /\ v.items # {}

\* The arguments of the calls.
EstadosGuardados == {"ESPERANDO_ACTIVIDADES", "ESPERANDO_FECHA"}

DatosTemporales == {PyNone, PyDict({}), PyDict({<<"key", "value">>})}

\* The row of an owner, as a set of at most one row.
FilaEstado(tabla, telegram_id) ==
    {r \in tabla : r.telegram_id = telegram_id}

\* guardar_estado: INSERT ... ON CONFLICT (telegram_id) DO UPDATE, with
\* datos_temporales bound to json.dumps of the payload when the payload is
\* true and to NULL otherwise; updated_at is NOW().
guardar_estado(tabla, telegram_id, estado, datos_temporales, ahora) ==
    LET datos_json == IF Truthy(datos_temporales)
                      THEN json_dumps(datos_temporales) ELSE PyNone
    IN  (tabla \ FilaEstado(tabla, telegram_id))
            \cup {[telegram_id |-> telegram_id, estado |-> estado,
                   datos_temporales |-> datos_json, updated_at |-> ahora]}

\* obtener_estado: the columns estado and datos_temporales of the owner's
\* row as a dict, or None.  A jsonb column is fetched as the str of its
\* JSON text, and NULL as None.
obtener_estado(tabla, telegram_id) ==
    IF FilaEstado(tabla, telegram_id) = {} THEN PyNone
    ELSE LET row == CHOOSE r \in FilaEstado(tabla, telegram_id) : TRUE
         IN  [tipo |-> "dict", estado |-> row.estado,
              datos_temporales |-> row.datos_temporales]

\* limpiar_estado: DELETE ... WHERE telegram_id = $1.
limpiar_estado(tabla, telegram_id) == tabla \ FilaEstado(tabla, telegram_id)

\* The calls.  prueba records the last call, its result, what each owner
\* last saved (None after limpiar_estado), the table before the call and
\* the number of writes, which is the clock of NOW().
Nada == [estado |-> "", datos_temporales |-> PyNone]

PruebaEstado ==
    [op |-> "", arg |-> <<>>, res |-> <<>>, hecho |-> FALSE,
     guardado |-> [o \in Owners |-> Nada], antes |-> {}, escrituras |-> 0]

InitEstado == InitCon(PruebaEstado)

sin_estado ==
    <<conversations, timeout_jobs, user_data, registros_tiempo, next_id,
      fecha_sesion, llamada, retry, listados, requests>>

GuardarEstado(o, estado, datos) ==
    /\ prueba.escrituras < MaxEscrituras
    /\ estados_usuarios' =
           guardar_estado(estados_usuarios, o, estado, datos,
                          prueba.escrituras + 1)
    /\ prueba' = [prueba EXCEPT
                     !.op = "guardar_estado",
                     !.arg = <<o, estado, datos>>,
                     !.res = PyNone,
                     !.hecho = TRUE,
                     !.guardado[o] = [estado |-> estado,
                                      datos_temporales |-> datos],
                     !.antes = estados_usuarios,
                     !.escrituras = @ + 1]
    /\ UNCHANGED sin_estado

ObtenerEstado(o) ==
    /\ prueba' = [prueba EXCEPT
                     !.op = "obtener_estado",
                     !.arg = <<o>>,
                     !.res = obtener_estado(estados_usuarios, o),
                     !.hecho = TRUE,
                     !.antes = estados_usuarios]
    /\ UNCHANGED estados_usuarios
    /\ UNCHANGED sin_estado

LimpiarEstado(o) ==
    /\ prueba.escrituras < MaxEscrituras
    /\ estados_usuarios' = limpiar_estado(estados_usuarios, o)
    /\ prueba' = [prueba EXCEPT
                     !.op = "limpiar_estado",
                     !.arg = <<o>>,
                     !.res = PyNone,
                     !.hecho = TRUE,
                     !.guardado[o] = Nada,
                     !.antes = estados_usuarios,
                     !.escrituras = @ + 1]
    /\ UNCHANGED sin_estado

NextEstado ==
    \/ \E o \in Owners, estado \in EstadosGuardados, datos \in DatosTemporales :
           GuardarEstado(o, estado, datos)
    \/ \E o \in Owners : ObtenerEstado(o)
    \/ \E o \in Owners : LimpiarEstado(o)

SpecEstado == InitEstado /\ [][NextEstado]_vars

\* C28: the session mirror holds at most one row per owner; obtener_estado
\* of an owner returns exactly the step and the payload of that owner's
\* latest guardar_estado, for every payload including an empty one, and
\* none after limpiar_estado; no call touches the rows of other owners.
C28_EspejoDevuelveLoGuardado ==
    /\ \A o \in Owners : Cardinality(FilaEstado(estados_usuarios, o)) <= 1
    /\ (prueba.hecho /\ prueba.op = "obtener_estado") =>
           LET g == prueba.guardado[prueba.arg[1]]
           IN  prueba.res =
                   IF g = Nada THEN PyNone
                   ELSE [tipo |-> "dict", estado |-> g.estado,
                         datos_temporales |-> g.datos_temporales]
    /\ prueba.hecho =>
           \A o \in Owners \ {prueba.arg[1]} :
               FilaEstado(estados_usuarios, o) = FilaEstado(prueba.antes, o)

\* ------------------------------------------------------------------------
\* The shape of the flows
\* ------------------------------------------------------------------------

\* The waiting state that follows st in its flow, if there is one.
Siguiente(st) ==
    CASE st = ESPERANDO_FECHA -> ESPERANDO_ACTIVIDADES_OTRO_DIA
      [] st = ESPERANDO_FECHA_ELIMINAR -> ESPERANDO_SELECCION_ELIMINAR
      [] OTHER -> NoConversation

\* The state of the conversation after a callback that ran in state st.
EstadoTras(st, res) ==
    IF res.raised THEN st
    ELSE IF res.ret = END THEN NoConversation ELSE res.ret

\* From st the flow may stay (a rejected reply), advance or end; after a
\* valid reply it has advanced or ended.
PasoLineal(st, res, valida) ==
    /\ EstadoTras(st, res) \in {st, Siguiente(st), NoConversation}
    /\ valida => EstadoTras(st, res) \in {Siguiente(st), NoConversation} \ {st}

\* C29: each flow is a linear sequence: from each waiting state a valid
\* reply either advances to the next waiting state of the same flow or ends
\* the session; no callback returns a state of another flow or of an
\* earlier step; no flow has more than two waiting states.
C29_FlujoLineal ==
    \A o \in Senders, f \in FlowNames :
        LET st == conversations[o][f]
        IN  /\ Cardinality(FlowStates(f)) <= 2
            /\ st \in FlowStates(f) \cup {NoConversation}
            /\ Siguiente(st) \in FlowStates(f) \cup {NoConversation}
            /\ (st # NoConversation /\ TomaTexto(o)[1] = f) =>
                   IF st \in EstadosQueValidan
                   THEN \A t \in InputTexts, dbfalla \in BOOLEAN :
                            PasoLineal(st, ResDeEstado(o, st, t, dbfalla),
                                       ~RespuestaInvalida(o, st, t))
                   ELSE \A ex \in Extracciones :
                            \A falla \in 0..Len(ex.actividades) :
                                PasoLineal(st,
                                    IF st = ESPERANDO_ACTIVIDADES
                                    THEN procesar_actividades_hoy(
                                             o, user_data[o], registros_tiempo,
                                             next_id, ex, falla)
                                    ELSE procesar_actividades_otro_dia(
                                             o, user_data[o], registros_tiempo,
                                             next_id, ex, falla),
                                    TRUE)

\* ------------------------------------------------------------------------
\* Extraction, insert and summary in the register flows
\* ------------------------------------------------------------------------

\* The callback of the register flow that waits in st, on an extraction
\* result ex and an insert that fails at row falla (0: it commits).
ResRegistro(o, st, ex, falla) ==
    IF st = ESPERANDO_ACTIVIDADES
    THEN procesar_actividades_hoy(o, user_data[o], registros_tiempo, next_id,
                                  ex, falla)
    ELSE procesar_actividades_otro_dia(o, user_data[o], registros_tiempo,
                                       next_id, ex, falla)

HayResumen(res) == \E i \in 1..Len(res.msgs) : res.msgs[i].tipo = "resumen"

\* C30: in both register flows the batch insert is issued only after the
\* extraction has returned a validated list, and the summary is sent only
\* after the insert has committed: a failed extraction is followed by no
\* store call and no new row, a failed insert by no summary and no new row,
\* and a summary is the last message of a run whose rows are in the store.
C30_InsertTrasExtraccion ==
    \A o \in Senders, f \in {"registrar_dia_actual", "registrar_otro_dia"} :
        LET st == conversations[o][f]
        IN  (st \in {ESPERANDO_ACTIVIDADES, ESPERANDO_ACTIVIDADES_OTRO_DIA}
             /\ TomaTexto(o)[1] = f) =>
                \A ex \in Extracciones :
                    \A falla \in 0..Len(ex.actividades) :
                        LET res == ResRegistro(o, st, ex, falla)
                        IN  /\ res.db # "" =>
                                ex.ok /\ RespuestaGemini(ex.actividades)
                            /\ ~ex.ok =>
                                /\ res.db = ""
                                /\ res.tabla = registros_tiempo
                                /\ res.next = next_id
                                /\ ~HayResumen(res)
                            /\ (ex.ok /\ falla # 0) =>
                                /\ res.db = "error"
                                /\ res.tabla = registros_tiempo
                                /\ ~HayResumen(res)
                            /\ HayResumen(res) =>
                                /\ res.db = "ok"
                                /\ res.msgs[Len(res.msgs)].tipo = "resumen"
                                /\ Cardinality(res.tabla \ registros_tiempo)
                                       = Len(ex.actividades)
                                /\ \A r \in res.tabla \ registros_tiempo :
                                       r.usuario_telegram_id = o

\* C30 witness: the other-day flow waits for the activities with a date
\* chosen; a failed extraction ends it with no store call, a validated
\* list whose insert fails ends it with the failure notice and no row, and
\* a validated list whose insert commits ends it with the summary.
C30_Witness ==
    \E o \in Senders :
        /\ conversations[o]["registrar_otro_dia"] = ESPERANDO_ACTIVIDADES_OTRO_DIA
        /\ TomaTexto(o)[1] = "registrar_otro_dia"
        /\ \E ex \in Extracciones :
               /\ ~ex.ok
               /\ ResRegistro(o, ESPERANDO_ACTIVIDADES_OTRO_DIA, ex, 0).db = ""
        /\ \E ex \in Extracciones :
               /\ ex.ok
               /\ LET mal == ResRegistro(o, ESPERANDO_ACTIVIDADES_OTRO_DIA, ex, 1)
                      bien == ResRegistro(o, ESPERANDO_ACTIVIDADES_OTRO_DIA, ex, 0)
                  IN  /\ mal.msgs[Len(mal.msgs)].tipo = "error_al_guardar"
                      /\ mal.tabla = registros_tiempo
                      /\ HayResumen(bien)
                      /\ bien.tabla # registros_tiempo

\* ------------------------------------------------------------------------
\* The selection step of the delete flow under concurrent webhook requests
\* (app/main.py telegram_webhook, app/bot/conversations.py)
\* ------------------------------------------------------------------------

\* A request that runs confirmar_eliminacion: the reply, the candidate list
\* the callback read from user_data when it started, and, once the delete
\* has run, whether the chosen row was in the store and the rows removed.
RequestEliminar(o, texto, registros, pc, res, existia, borradas) ==
    [o |-> o, f |-> "eliminar_registro", sesion |-> 0, pc |-> pc, ex |-> <<>>,
     res |-> res, tras_error |-> requests.hubo_error, texto |-> texto,
     registros |-> registros, existia |-> existia, borradas |-> borradas]

\* POST /webhook with a reply in the selection state: check_update reads the
\* state of the conversation, the timeout job is removed and
\* confirmar_eliminacion reads the candidates and validates the reply; a
\* rejected reply is answered at once, an accepted one awaits the delete.
SeleccionLlegaCon(o, t) ==
    LET f == "eliminar_registro"
        registros == DictGet(user_data[o], "registros_eliminar", <<>>)
        res == confirmar_eliminacion(o, user_data[o], registros_tiempo,
                                     next_id, t, FALSE)
        rechazada == res.ret = ESPERANDO_SELECCION_ELIMINAR
    IN  /\ Len(requests.en_vuelo) < MaxRequests
        /\ Selected(conversations, o, Texto(t)) = <<f, "confirmar_eliminacion">>
        /\ timeout_jobs' = [timeout_jobs EXCEPT ![o][f] = FALSE]
        /\ requests' = [requests EXCEPT !.en_vuelo =
                           Append(@, RequestEliminar(
                                         o, t, registros,
                                         IF rechazada THEN "fin" ELSE "delete",
                                         IF rechazada THEN Devuelto(res) ELSE <<>>,
                                         FALSE, {}))]
        /\ UNCHANGED <<conversations, user_data, registros_tiempo, next_id,
                       fecha_sesion, llamada, retry, listados, estados_usuarios,
                       prueba>>

SeleccionLlega ==
    \E o \in Senders, t \in InputTexts : SeleccionLlegaCon(o, t)

\* The delete of request i runs against the table as it is now; the
\* callback answers, pops the candidates from user_data and returns, or the
\* store raises and nothing else runs.
EliminarVuelveCon(i, dbfalla) ==
    LET r == requests.en_vuelo[i]
        ud == DictSet(EmptyDict, "registros_eliminar", r.registros)
        res == confirmar_eliminacion(r.o, ud, registros_tiempo, next_id,
                                     r.texto, dbfalla)
        registro == r.registros[ParseInt(Strip(r.texto))[2]]
    IN  /\ r.pc = "delete"
        /\ registros_tiempo' = res.tabla
        /\ user_data' = IF res.raised THEN user_data
                        ELSE [user_data EXCEPT
                                 ![r.o] = DictPop(@, "registros_eliminar")]
        /\ requests' = [requests EXCEPT !.en_vuelo[i] =
                           [r EXCEPT !.pc = "fin", !.res = Devuelto(res),
                                     !.existia = registro \in registros_tiempo,
                                     !.borradas = registros_tiempo \ res.tabla]]
        /\ UNCHANGED <<conversations, timeout_jobs, next_id, fecha_sesion,
                       llamada, retry, listados, estados_usuarios, prueba>>

EliminarVuelve ==
    \E i \in 1..Len(requests.en_vuelo), dbfalla \in BOOLEAN :
        EliminarVuelveCon(i, dbfalla)

NextEliminar ==
    \/ \E o \in Senders : RegistrarDiaCmd(o)
    \/ \E o \in Senders : ProcesarActividadesHoy(o)
    \/ \E o \in Senders : EliminarRegistroCmd(o)
    \/ \E o \in Senders : MostrarRegistrosEliminar(o)
    \/ SeleccionLlega
    \/ EliminarVuelve
    \/ WebhookTermina

SpecEliminar == Init /\ [][NextEliminar]_vars

\* C31: when the delete of a selection runs and the chosen record is no
\* longer in the store (it was deleted after the list was shown), the
\* callback answers that it could not delete, removes no row, raises no
\* exception and returns END, which ends the session.
C31_YaEliminadoNoSePudo ==
    \A i \in 1..Len(requests.en_vuelo) :
        LET r == requests.en_vuelo[i]
        IN  (r.f = "eliminar_registro" /\ r.pc = "fin" /\ r.res.db = "ok"
             /\ ~r.existia) =>
                /\ Len(r.res.msgs) = 1
                /\ r.res.msgs[1].tipo = "no_se_pudo_eliminar"
                /\ r.borradas = {}
                /\ ~r.res.raised
                /\ r.res.ret = END

\* C31 witness: two requests carried the number of the same record; the
\* first deleted it, the second found it gone, and nothing is left of the
\* sender's rows.
C31_Witness ==
    \E i \in 1..Len(requests.en_vuelo) :
        LET r == requests.en_vuelo[i]
        IN  /\ r.f = "eliminar_registro"
            /\ r.pc = "fin"
            /\ r.res.db = "ok"
            /\ ~r.existia
            /\ Len(r.registros) >= 1
            /\ \A q \in registros_tiempo : q.usuario_telegram_id \notin Senders

\* C32: whenever the delete flow of an owner waits in the selection state,
\* the candidate list carried in user_data is present, is not empty and is
\* the list that was shown to the owner; a date with no records ends the
\* session instead of entering the selection state.
C32_ListaPresenteEnSeleccion ==
    \A o \in Senders :
        /\ conversations[o]["eliminar_registro"] = ESPERANDO_SELECCION_ELIMINAR =>
               LET registros == DictGet(user_data[o], "registros_eliminar", <<>>)
               IN  /\ registros # <<>>
                   /\ registros = listados[o]
        /\ (conversations[o]["eliminar_registro"] = ESPERANDO_FECHA_ELIMINAR
            /\ TomaTexto(o)[1] = "eliminar_registro") =>
               \A t \in InputTexts :
                   (FechaDe[t] # NoDate
                    /\ obtener_registros_por_fecha(registros_tiempo, o, FechaDe[t])
                           = <<>>)
                   => mostrar_registros_eliminar(o, user_data[o], registros_tiempo,
                                                 next_id, t, FALSE).ret = END

\* ------------------------------------------------------------------------
\* Events handled outside the flows
\* ------------------------------------------------------------------------

\* A callback result that leaves the carried data, the rows and the id
\* counter as they are.
SinEfecto(o, res) ==
    /\ res.ud = user_data[o]
    /\ res.tabla = registros_tiempo
    /\ res.next = next_id

\* The Monday and the Sunday of the week of 17 February 2026, a Tuesday.
LunesDeHoy == <<2026, 2, 16>>

DomingoDeHoy == <<2026, 2, 22>>

\* C33: in every session state /start and /ver_semana are taken by the
\* plain command handlers and by no flow, so no flow changes its step; the
\* callbacks leave the carried data and the store as they are; /ver_semana
\* reports exactly the sender's records dated from the Monday to the Sunday
\* of the current week, both included.
C33_StartYVerSemanaFueraDeFlujos ==
    \A o \in Senders :
        /\ Selected(conversations, o, Comando("start")) = <<"", "start_cmd">>
        /\ Selected(conversations, o, Comando("ver_semana"))
               = <<"", "ver_semana_cmd">>
        /\ SinEfecto(o, start_cmd(o, user_data[o], registros_tiempo, next_id))
        /\ \A dbfalla \in BOOLEAN :
               LET res == ver_semana_cmd(o, user_data[o], registros_tiempo,
                                         next_id, dbfalla)
               IN  /\ SinEfecto(o, res)
                   /\ ~dbfalla =>
                          /\ Len(res.msgs) = 1
                          /\ Range(res.msgs[1].registros) =
                                 {r \in registros_tiempo :
                                     /\ r.usuario_telegram_id = o
                                     /\ ~DateLess(r.fecha, LunesDeHoy)
                                     /\ ~DateLess(DomingoDeHoy, r.fecha)}
                          /\ Len(res.msgs[1].registros)
                                 = Cardinality(Range(res.msgs[1].registros))

\* C33 witness: the delete flow waits for the selection with its list in
\* user_data, the sender has a record in the current week, and /ver_semana
\* reports it.
C33_Witness ==
    \E o \in Senders :
        /\ conversations[o]["eliminar_registro"] = ESPERANDO_SELECCION_ELIMINAR
        /\ user_data[o] # EmptyDict
        /\ Selected(conversations, o, Comando("ver_semana"))
               = <<"", "ver_semana_cmd">>
        /\ ver_semana_cmd(o, user_data[o], registros_tiempo, next_id,
                          FALSE).msgs[1].registros # <<>>

\* The events of C34 for a flow f that waits: a message that is not text,
\* a command no handler knows, and the entry command of f itself.
EventosAjenos(f) ==
    {[tipo |-> "photo", command |-> "", texto |-> <<>>],
     Comando("desconocido"), Comando(f)}

\* C34: while a flow of an owner waits, a non-text message, an unknown
\* command and the flow's own entry command are accepted by no handler, so
\* no callback runs: the step and the carried data stay, nothing is written
\* to the store and no message is sent.
C34_EventoAjenoSinHandler ==
    \A o \in Senders, f \in FlowNames :
        conversations[o][f] # NoConversation =>
            \A u \in EventosAjenos(f) :
                /\ u \in Updates
                /\ Selected(conversations, o, u) = <<"", "">>
                /\ \A g \in FlowNames : CheckUpdate(conversations, o, g, u) = ""

\* C34 witness: the other-day flow waits for the activities with the date
\* in user_data, and its own entry command, a photo and an unknown command
\* reach no handler.
C34_Witness ==
    \E o \in Senders :
        /\ conversations[o]["registrar_otro_dia"] = ESPERANDO_ACTIVIDADES_OTRO_DIA
        /\ user_data[o] # EmptyDict
        /\ \A u \in EventosAjenos("registrar_otro_dia") :
               Selected(conversations, o, u) = <<"", "">>

\* ------------------------------------------------------------------------
\* The monthly report (app/services/sheets_service.py)
\* ------------------------------------------------------------------------

\* The display names of the categories.
CATEGORIA_LABELS ==
    [c \in Categorias |->
        IF c = "proyectoFacturable" THEN "Proyecto Facturable"
        ELSE IF c = "proyectoNoFacturable" THEN "Proyecto No Facturable"
        ELSE "Otros No Facturable"]

\* The project names and category keys of the model in the order of
\* Python's str comparison (by code point: capitals before small letters).
CadenasOrdenadas ==
    <<"Alpha", "Beta", "alpha", "otrosNoFacturable", "proyectoFacturable",
      "proyectoNoFacturable">>

PosCadena(s) ==
    CHOOSE i \in 1..Len(CadenasOrdenadas) : CadenasOrdenadas[i] = s

StrLess(a, b) == PosCadena(a) < PosCadena(b)

\* One step of the stable sort: x goes behind every element whose key
\* (fecha, created_at) is not greater than its own.
Insertar(s, x) ==
    LET n == Cardinality({i \in 1..Len(s) : ~Menor(x, s[i], "fecha, created_at")})
    IN  SubSeq(s, 1, n) \o <<x>> \o SubSeq(s, n + 1, Len(s))

\* sorted(registros, key=lambda r: (r["fecha"], r["created_at"])): records
\* with equal keys keep the order they came in.
RECURSIVE registros_sorted(_)
registros_sorted(registros) ==
    IF registros = <<>> THEN <<>>
    ELSE Insertar(registros_sorted(SubSeq(registros, 1, Len(registros) - 1)),
                  registros[Len(registros)])

\* The dict the loop builds: totales[key] = totales.get(key, 0) + horas,
\* key being the record's proyecto or its categoria.  Decimal(str(h)) of a
\* NUMERIC value is the value itself; the sums are exact decimal sums, in
\* hundredths here.
RECURSIVE totales(_, _)
totales(lista, campo) ==
    IF lista = <<>> THEN EmptyDict
    ELSE LET d == totales(SubSeq(lista, 1, Len(lista) - 1), campo)
             reg == lista[Len(lista)]
         IN  DictSet(d, reg[campo], DictGet(d, reg[campo], 0) + reg.horas_estimadas)

\* sorted(d.items()): the pairs in ascending order of their keys.
RECURSIVE sorted_items(_)
sorted_items(d) ==
    IF DOMAIN d = {} THEN <<>>
    ELSE LET k == CHOOSE x \in DOMAIN d : \A y \in DOMAIN d \ {x} : StrLess(x, y)
         IN  <<<<k, d[k]>>>> \o sorted_items(DictPop(d, k))

\* The cells of one data row: date, project, description, category label
\* and hours.  float(horas) is the double nearest to the decimal; the model
\* writes the decimal the cell denotes.
FilaDatos(reg) ==
    <<Escribir(reg.fecha, "iso"), reg.proyecto, reg.descripcion,
      CATEGORIA_LABELS[reg.categoria], reg.horas_estimadas>>

\* The report without the sort of the records.
generar_reporte_xlsx_sin_ordenar(registros) ==
    LET tp == sorted_items(totales(registros, "proyecto"))
        tc == sorted_items(totales(registros, "categoria"))
    IN  [datos |-> [i \in 1..Len(registros) |-> FilaDatos(registros[i])],
         por_proyecto |-> tp,
         por_categoria |-> [i \in 1..Len(tc) |-> <<CATEGORIA_LABELS[tc[i][1]], tc[i][2]>>],
         total_general |-> SumaHoras(registros)]

\* generar_reporte_xlsx: the data rows, the two subtotal sections (name or
\* label, and hours) and the TOTAL GENERAL cell.  The title, the header row
\* and the styles, which mes, anio and nombre_usuario go into, are left out.
generar_reporte_xlsx(registros) ==
    LET rs == registros_sorted(registros)
        tp == sorted_items(totales(rs, "proyecto"))
        tc == sorted_items(totales(rs, "categoria"))
    IN  [datos |-> [i \in 1..Len(rs) |-> FilaDatos(rs[i])],
         por_proyecto |-> tp,
         por_categoria |-> [i \in 1..Len(tc) |-> <<CATEGORIA_LABELS[tc[i][1]], tc[i][2]>>],
         total_general |-> SumaHoras(rs)]

ActC == [descripcion |-> "Almuerzo de equipo", proyecto |-> "Alpha",
         categoria |-> "otrosNoFacturable", horas_estimadas |-> 25]

ActD == [descripcion |-> "Soporte", proyecto |-> "alpha",
         categoria |-> "proyectoFacturable", horas_estimadas |-> 150]

\* The records reports are made of: two days of one month, a record created
\* late for the earlier day, two records with one key (fecha, created_at),
\* projects and categories that occur once and more than once.
RegistrosReporte ==
    { Fila(1, 1, fecha_colombia_hoy, ActA),
      Fila(2, 1, OtraFecha, ActB),
      Fila(3, 1, fecha_colombia_hoy, ActC),
      [Fila(4, 1, fecha_colombia_hoy, ActD) EXCEPT !.created_at = 3],
      Fila(5, 1, OtraFecha, ActA) }

\* The longest list of records a report is asked for.
MaxRegistrosReporte == 4

\* The lists of at most n different records of S, in every order.
Listas(S, n) ==
    UNION { { l \in [1..k -> S] : \A i, j \in 1..k : l[i] = l[j] => i = j }
            : k \in 0..n }

PruebasReporte ==
    { [op |-> "generar_reporte_xlsx", arg |-> l, res |-> <<>>, hecho |-> FALSE]
      : l \in Listas(RegistrosReporte, MaxRegistrosReporte) }

InitReporte == \E p \in PruebasReporte : InitCon(p)

\* A call generar_reporte_xlsx(registros, mes, anio).
GenerarReporteXlsx ==
    /\ prueba.op = "generar_reporte_xlsx"
    /\ ~prueba.hecho
    /\ prueba' = [prueba EXCEPT !.res = generar_reporte_xlsx(prueba.arg),
                                !.hecho = TRUE]
    /\ UNCHANGED sin_prueba

NextReporte == GenerarReporteXlsx

SpecReporte == InitReporte /\ [][NextReporte]_vars

\* The key a category label stands for.
ClaveDeLabel(label) == CHOOSE c \in Categorias : CATEGORIA_LABELS[c] = label

RECURSIVE SumaPares(_)
SumaPares(pares) ==
    IF pares = <<>> THEN 0 ELSE pares[1][2] + SumaPares(Tail(pares))

\* The orders 1..n can be put in.
Ordenes(n) == { p \in [1..n -> 1..n] : \A i, j \in 1..n : p[i] = p[j] => i = j }

\* C35: in a generated report the data rows are the records, one row each,
\* in ascending order of (date, creation time); the grand total is the sum
\* of the hours of all records and equals the sum of the project subtotals
\* and the sum of the category subtotals; there is one project subtotal per
\* project, in ascending order of the names, and one category subtotal per
\* category, in ascending order of the keys, each the sum of the hours of
\* its records.
C35_ReporteOrdenadoYTotales ==
    (prueba.op = "generar_reporte_xlsx" /\ prueba.hecho) =>
        LET regs == prueba.arg
            n == Len(regs)
            r == prueba.res
            horasDe(campo, k) ==
                SumaHoras(SelectSeq(regs, LAMBDA x : x[campo] = k))
        IN  /\ Len(r.datos) = n
            /\ \E p \in Ordenes(n) :
                   /\ \A i \in 1..n : r.datos[i] = FilaDatos(regs[p[i]])
                   /\ \A i \in 1..(n - 1) :
                          ~Menor(regs[p[i + 1]], regs[p[i]], "fecha, created_at")
            /\ r.total_general = SumaHoras(regs)
            /\ r.total_general = SumaPares(r.por_proyecto)
            /\ r.total_general = SumaPares(r.por_categoria)
            /\ {r.por_proyecto[i][1] : i \in 1..Len(r.por_proyecto)}
                   = {regs[i].proyecto : i \in 1..n}
            /\ {ClaveDeLabel(r.por_categoria[i][1]) : i \in 1..Len(r.por_categoria)}
                   = {regs[i].categoria : i \in 1..n}
            /\ \A i \in 1..Len(r.por_proyecto) :
                   /\ r.por_proyecto[i][2] = horasDe("proyecto", r.por_proyecto[i][1])
                   /\ i > 1 => StrLess(r.por_proyecto[i - 1][1], r.por_proyecto[i][1])
            /\ \A i \in 1..Len(r.por_categoria) :
                   /\ r.por_categoria[i][2]
                          = horasDe("categoria", ClaveDeLabel(r.por_categoria[i][1]))
                   /\ i > 1 => StrLess(ClaveDeLabel(r.por_categoria[i - 1][1]),
                                       ClaveDeLabel(r.por_categoria[i][1]))

\* C35 witness: a report of four records handed over out of order, with
\* two projects and two categories that each have more than one record.
C35_Witness ==
    /\ prueba.op = "generar_reporte_xlsx"
    /\ prueba.hecho
    /\ Len(prueba.arg) = MaxRegistrosReporte
    /\ prueba.arg # registros_sorted(prueba.arg)
    /\ Len(prueba.res.datos) = MaxRegistrosReporte
    /\ Len(prueba.res.por_proyecto) = 2
    /\ Len(prueba.res.por_categoria) = 2

====
